---------------------------- MODULE Spec2Model ----------------------------
(***************************************************************************)
(* Model of the role-gated records API (qinshuxiang/server): the auth and  *)
(* permission middleware, the transaction wrapper, and the write paths of  *)
(* the cases, officers and households services.                            *)
(*                                                                         *)
(* JavaScript objects are functions whose DOMAIN is the set of own keys:   *)
(* a key that is absent from a payload is absent from the DOMAIN, an       *)
(* explicit null is the value Null.  Scalars are strings so that a         *)
(* nullable field and Null compare.                                        *)
(***************************************************************************)
EXTENDS Integers, Sequences, FiniteSets, TLC

VARIABLES
    target,     \* the module whose endpoints this behaviour exercises
    db,         \* the committed tables of the store
    poolOut,    \* connections currently checked out of the pool
    proc,       \* per request slot: the service call in progress
    nOps,       \* number of service calls started so far
    issued      \* the tokens signToken has produced, in order of issue

vars == <<target, db, poolOut, proc, nOps, issued>>

-----------------------------------------------------------------------------
(* Bounds of the model *)
MaxCases == 2          \* case ids handed out by the auto-increment
MaxOps == 3            \* service calls per behaviour
MaxAuthOps == 5        \* service calls per behaviour of the auth endpoints

-----------------------------------------------------------------------------
(* JavaScript values *)
Null == "null"
Empty == ""
NoRow == [absent |-> TRUE]

Has(obj, k) == k \in DOMAIN obj
\* obj.k read by destructuring or member access: undefined when absent
Undefined == "undefined"
Get(obj, k) == IF k \in DOMAIN obj THEN obj[k] ELSE Undefined
\* !v for the scalar values of the model
Falsy(v) == v \in {Undefined, Null, Empty}
\* v || null
OrNull(v) == IF Falsy(v) THEN Null ELSE v
\* v || d
OrElse(v, d) == IF Falsy(v) THEN d ELSE v

\* { ...a, ...b }
Spread(a, b) == [k \in (DOMAIN a) \cup (DOMAIN b) |-> IF k \in DOMAIN b THEN b[k] ELSE a[k]]

isNil(value) == value = Null \/ value = Undefined

-----------------------------------------------------------------------------
(* Error taxonomy: utils/errors.js *)
ERROR_CODES == {"UNAUTHORIZED", "FORBIDDEN", "VALIDATION_ERROR", "NOT_FOUND",
                "CONFLICT", "DB_ERROR", "INTERNAL_ERROR"}

DEFAULT_STATUS_BY_CODE ==
    [c \in ERROR_CODES |->
        CASE c = "UNAUTHORIZED" -> 401
          [] c = "FORBIDDEN" -> 403
          [] c = "VALIDATION_ERROR" -> 400
          [] c = "NOT_FOUND" -> 404
          [] c = "CONFLICT" -> 409
          [] c = "DB_ERROR" -> 500
          [] c = "INTERNAL_ERROR" -> 500]

\* The own properties an AppError instance carries after its constructor ran.
AppErrorProps == {"name", "message", "stack", "errorCode", "status", "details", "isOperational"}

\* new AppError(errorCode, message, {status, details}); fields are the keys of
\* details.fieldErrors whose value is defined.
AppError(errorCode, fields) ==
    [cls |-> "AppError", errorCode |-> errorCode,
     status |-> DEFAULT_STATUS_BY_CODE[errorCode], fields |-> fields, code |-> Undefined]

unauthorized == AppError("UNAUTHORIZED", {})
forbidden == AppError("FORBIDDEN", {})
validationError(fields) == AppError("VALIDATION_ERROR", fields)
notFound == AppError("NOT_FOUND", {})
conflict(fields) == AppError("CONFLICT", fields)
dbError == AppError("DB_ERROR", {})
internalError == AppError("INTERNAL_ERROR", {})

\* An exception raised by the mysql2 driver: a plain Error with a code.
MysqlError(code) ==
    [cls |-> "Error", errorCode |-> Undefined, status |-> 0, fields |-> {}, code |-> code]

NoErr == [cls |-> "none", errorCode |-> Undefined, status |-> 0, fields |-> {}, code |-> Undefined]

\* new AppError(errorCode, message) with whatever value stands first: a code,
\* nothing, or (communities/service.js) one object holding all three, which
\* is kept as the errorCode and has no entry in DEFAULT_STATUS_BY_CODE.
ObjectArgument == "[object Object]"
newAppError(errorCode) ==
    [cls |-> "AppError",
     errorCode |-> IF errorCode \in {Undefined, Null, Empty} THEN "INTERNAL_ERROR" ELSE errorCode,
     status |-> IF errorCode \in ERROR_CODES THEN DEFAULT_STATUS_BY_CODE[errorCode] ELSE 500,
     fields |-> {}, code |-> Undefined]

\* A TypeError (calling what is not a function), a Joi ValidationError and a
\* jsonwebtoken error: plain Errors without a code.
TypeError ==
    [cls |-> "Error", errorCode |-> Undefined, status |-> 0, fields |-> {}, code |-> "TypeError"]
JoiError ==
    [cls |-> "Joi", errorCode |-> Undefined, status |-> 0, fields |-> {}, code |-> Undefined]
JsonWebTokenError ==
    [cls |-> "JsonWebTokenError", errorCode |-> Undefined, status |-> 0, fields |-> {}, code |-> Undefined]

\* err.isAppError, the member read by the services' catch blocks
PropIsAppError(err) == err.cls = "AppError" /\ "isAppError" \in AppErrorProps

\* isAppError(err): err instanceof AppError
isAppError(err) == err.cls = "AppError"

\* errorHandler(err, req, res, next): the status and errorCode of the response.
NoResponse == [status |-> 0, errorCode |-> "none"]
errorHandler(err) ==
    LET appError == IF isAppError(err) THEN err
                    ELSE IF err.cls = "Joi" THEN AppError("VALIDATION_ERROR", {})
                    ELSE IF err.cls = "JsonWebTokenError" THEN AppError("UNAUTHORIZED", {})
                    ELSE AppError("INTERNAL_ERROR", {})
    IN  [status |-> IF appError.status = 0 THEN 500 ELSE appError.status,
         errorCode |-> IF appError.errorCode \in {Undefined, Null, Empty} THEN "INTERNAL_ERROR"
                       ELSE appError.errorCode]


-----------------------------------------------------------------------------
(* The store.  db holds the committed tables; a transaction's uncommitted   *)
(* writes live in the connection's image (proc[p].tx) until commit.  Every  *)
(* write path of the model touches one aggregate per transaction: the       *)
(* parent row with the given id and its child rows.                         *)
CaseIds == 1..MaxCases

NoTx == [id |-> 0, row |-> NoRow, c1 |-> <<>>, c2 |-> <<>>]

\* Codes a statement or query can fail with for reasons outside the payload
\* (a missing referenced row, a lost connection).
ER_DUP_ENTRY == "ER_DUP_ENTRY"
ER_NO_REFERENCED_ROW_2 == "ER_NO_REFERENCED_ROW_2"
PROTOCOL_CONNECTION_LOST == "PROTOCOL_CONNECTION_LOST"
StmtFaults == {ER_NO_REFERENCED_ROW_2, PROTOCOL_CONNECTION_LOST}

-----------------------------------------------------------------------------
(* cases/service.js *)
ZAIBAN == "ZAIBAN"      \* '在办'
YIJIE == "YIJIE"        \* '已结'
YIJIAO == "YIJIAO"      \* '移交'
CUNDANG == "CUNDANG"    \* '存档'
ZHUBAN == "ZHUBAN"      \* role '主办'
XIEBAN == "XIEBAN"      \* role '协办'

CaseCols == {"caseNo", "mainOfficerId", "receivedDate", "deadlineDate", "status",
             "closedDate", "resultItemId", "transferTarget", "transferDate",
             "archiveLocation", "archiveDate"}

\* Dates are 'YYYY-MM-DD' strings compared with <, which on this format is the
\* order of the calendar: DateRank is that order on the literals of the model.
DateRank(d) ==
    CASE d = "2024-01-01" -> 1
      [] d = "2024-01-02" -> 2
      [] d = "2024-01-03" -> 3
DateLT(a, b) == DateRank(a) < DateRank(b)

hasPermission(user, code) == code \in user.permissions

\* (Variant first: the deadline rule alone.)
validateCaseBusinessRulesDeadlineOnly(caseData) ==
    IF /\ ~Falsy(Get(caseData, "deadlineDate")) /\ ~Falsy(Get(caseData, "receivedDate"))
       /\ DateLT(caseData.deadlineDate, caseData.receivedDate)
    THEN validationError({"deadlineDate"})
    ELSE NoErr

\* The ValidationError validateCaseBusinessRules throws, or NoErr when it returns.
\* Each rule throws on its own: the first violated rule decides the error.
validateCaseBusinessRules(caseData) ==
    LET receivedDate == Get(caseData, "receivedDate")
        deadlineDate == Get(caseData, "deadlineDate")
        status == IF Get(caseData, "status") = Undefined THEN ZAIBAN ELSE caseData.status
        closedDate == Get(caseData, "closedDate")
        resultItemId == Get(caseData, "resultItemId")
        transferTarget == Get(caseData, "transferTarget")
        transferDate == Get(caseData, "transferDate")
        archiveLocation == Get(caseData, "archiveLocation")
        archiveDate == Get(caseData, "archiveDate")
    IN  IF ~Falsy(deadlineDate) /\ ~Falsy(receivedDate) /\ DateLT(deadlineDate, receivedDate)
        THEN validationError({"deadlineDate"})
        ELSE IF status = YIJIE /\ (Falsy(closedDate) \/ isNil(resultItemId))
        THEN validationError({k \in {"closedDate"} : Falsy(closedDate)}
                             \cup {k \in {"resultItemId"} : isNil(resultItemId)})
        ELSE IF status = YIJIAO /\ (Falsy(transferTarget) \/ Falsy(transferDate))
        THEN validationError({k \in {"transferTarget"} : Falsy(transferTarget)}
                             \cup {k \in {"transferDate"} : Falsy(transferDate)})
        ELSE IF status = CUNDANG /\ (Falsy(archiveLocation) \/ Falsy(archiveDate))
        THEN validationError({k \in {"archiveLocation"} : Falsy(archiveLocation)}
                             \cup {k \in {"archiveDate"} : Falsy(archiveDate)})
        ELSE NoErr

\* The error handleCaseDbError throws for err.
handleCaseDbError(err) ==
    IF err.code = ER_DUP_ENTRY THEN conflict({"caseNo"})
    ELSE IF err.code = "ER_CHECK_CONSTRAINT" THEN validationError({})
    ELSE IF err.code \in {ER_NO_REFERENCED_ROW_2, "ER_ROW_IS_REFERENCED_2"} THEN validationError({})
    ELSE dbError

\* catch (err) { if (err && err.isAppError) throw err; handleCaseDbError(err); }
CaseCatch(err) == IF PropIsAppError(err) THEN err ELSE handleCaseDbError(err)

\* The column values createCase and updateCase bind to the parent statement.
CaseRowOf(c) ==
    [caseNo |-> Get(c, "caseNo"),
     mainOfficerId |-> Get(c, "mainOfficerId"),
     receivedDate |-> Get(c, "receivedDate"),
     deadlineDate |-> OrNull(Get(c, "deadlineDate")),
     status |-> OrElse(Get(c, "status"), ZAIBAN),
     closedDate |-> OrNull(Get(c, "closedDate")),
     resultItemId |-> OrNull(Get(c, "resultItemId")),
     transferTarget |-> OrNull(Get(c, "transferTarget")),
     transferDate |-> OrNull(Get(c, "transferDate")),
     archiveLocation |-> OrNull(Get(c, "archiveLocation")),
     archiveDate |-> OrNull(Get(c, "archiveDate"))]

\* The values bound to one INSERT INTO case_officers / case_persons.
OfficerRowOf(officer) == [officerId |-> officer.officerId, role |-> OrNull(Get(officer, "role"))]
PersonRowOf(person) == [name |-> person.name, roleItemId |-> person.roleItemId]

Stmt(k, row, kid) == [k |-> k, row |-> row, kid |-> kid]
NoKid == [none |-> TRUE]

\* Variant without the synthesized row: the supplied list only.
OfficerInsertsSuppliedOnly(officersList, mainOfficerId) ==
    [i \in 1..Len(officersList) |-> Stmt("INSERT_OFFICER", NoRow, OfficerRowOf(officersList[i]))]
\* for (const officer of officersList) { hasMain...; INSERT } ; if (!hasMainInOfficers) INSERT 主办
OfficerInserts(officersList, mainOfficerId) ==
    LET hasMainInOfficers == \E i \in 1..Len(officersList) : officersList[i].officerId = mainOfficerId
    IN  [i \in 1..Len(officersList) |-> Stmt("INSERT_OFFICER", NoRow, OfficerRowOf(officersList[i]))]
        \o (IF hasMainInOfficers THEN <<>>
            ELSE <<Stmt("INSERT_OFFICER", NoRow, [officerId |-> mainOfficerId, role |-> ZHUBAN])>>)

PersonInserts(personsList) ==
    [i \in 1..Len(personsList) |-> Stmt("INSERT_PERSON", NoRow, PersonRowOf(personsList[i]))]

\* The statements the callback createCase hands to withTransaction issues, in order.
CreateCaseStmts(data) ==
    <<Stmt("INSERT_CASE", CaseRowOf(data), NoKid)>>
    \o OfficerInserts(IF Has(data, "officers") THEN data.officers ELSE <<>>, data.mainOfficerId)
    \o PersonInserts(IF Has(data, "persons") THEN data.persons ELSE <<>>)

\* The statements the callback of updateCase issues, in order.
UpdateCaseStmts(data, mergedCase) ==
    <<Stmt("UPDATE_CASE", CaseRowOf(mergedCase), NoKid)>>
    \o (IF Has(data, "officers")
        THEN <<Stmt("DELETE_OFFICERS", NoRow, NoKid)>>
             \o OfficerInserts(data.officers, mergedCase.mainOfficerId)
        ELSE <<>>)
    \o (IF Has(data, "persons")
        THEN <<Stmt("DELETE_PERSONS", NoRow, NoKid)>> \o PersonInserts(data.persons)
        ELSE <<>>)

DeleteCaseStmts == <<Stmt("DELETE_CASE", NoRow, NoKid)>>

\* SELECT id FROM case_records WHERE case_no = ? [AND id <> ?]
CaseNoTaken(d, caseNo, excludeId) ==
    \E i \in CaseIds : i # excludeId /\ d.caseRecords[i] # NoRow /\ d.caseRecords[i].caseNo = caseNo

\* What the engine does with one statement of a cases transaction on aggregate
\* id: the connection's new image, or the code it fails with.  case_no is
\* unique (uk_case_no); a child row needs its parent; deleting the parent
\* removes its children.
ExecCaseStmt(d, t, id, s) ==
    CASE s.k = "INSERT_CASE" ->
            IF CaseNoTaken(d, s.row.caseNo, 0) THEN [err |-> ER_DUP_ENTRY, tx |-> t]
            ELSE [err |-> "none", tx |-> [id |-> d.caseAutoInc, row |-> s.row, c1 |-> <<>>, c2 |-> <<>>]]
      [] s.k = "UPDATE_CASE" ->
            IF d.caseRecords[id] # NoRow /\ CaseNoTaken(d, s.row.caseNo, id)
            THEN [err |-> ER_DUP_ENTRY, tx |-> t]
            ELSE [err |-> "none",
                  tx |-> [id |-> id,
                          row |-> IF d.caseRecords[id] = NoRow THEN NoRow ELSE s.row,
                          c1 |-> d.caseOfficers[id], c2 |-> d.casePersons[id]]]
      [] s.k = "DELETE_CASE" ->
            [err |-> "none", tx |-> [id |-> id, row |-> NoRow, c1 |-> <<>>, c2 |-> <<>>]]
      [] s.k = "DELETE_OFFICERS" -> [err |-> "none", tx |-> [t EXCEPT !.c1 = <<>>]]
      [] s.k = "DELETE_PERSONS" -> [err |-> "none", tx |-> [t EXCEPT !.c2 = <<>>]]
      [] s.k = "INSERT_OFFICER" ->
            IF t.row = NoRow THEN [err |-> ER_NO_REFERENCED_ROW_2, tx |-> t]
            ELSE [err |-> "none", tx |-> [t EXCEPT !.c1 = Append(@, s.kid)]]
      [] s.k = "INSERT_PERSON" ->
            IF t.row = NoRow THEN [err |-> ER_NO_REFERENCED_ROW_2, tx |-> t]
            ELSE [err |-> "none", tx |-> [t EXCEPT !.c2 = Append(@, s.kid)]]

\* connection.commit() of a cases transaction: the image becomes the stored aggregate.
CommitCase(d, t) ==
    IF t.id = 0 THEN d
    ELSE [d EXCEPT !.caseRecords[t.id] = t.row,
                   !.caseOfficers[t.id] = t.c1,
                   !.casePersons[t.id] = t.c2]


-----------------------------------------------------------------------------
(* Request slots.  A service call runs in slot p: its queries before the    *)
(* transaction in one step, then one step per statement of the transaction, *)
(* then the commit.  pre is the store as the call found it; res is what the *)
(* call returned or threw (kind), and raised is the kind of the error at    *)
(* the place that detected it; nStmts counts the statements the call's      *)
(* transaction has executed; req and ran are the routed request and the     *)
(* middleware and handler that ran for it.                                  *)
SeqProcs == {1}
Procs == {1, 2}

NoUser == [id |-> 0, permissions |-> {}]
NoRes == [kind |-> "none", status |-> 0, fields |-> {}, raised |-> "none", raisedFields |-> {},
          sent |-> NoResponse]
NoPre == [none |-> TRUE]
NoReq == [none |-> TRUE]
Idle == [pc |-> "idle", op |-> "none", id |-> 0, data |-> <<>>, user |-> NoUser,
         stmts |-> <<>>, tx |-> NoTx, res |-> NoRes, pre |-> NoPre,
         req |-> NoReq, ran |-> {}, nStmts |-> 0]

\* The kind an error had where it was raised: an AppError's code, or STORAGE
\* for an exception of the driver.
RaisedKind(err) == IF err.cls = "AppError" THEN err.errorCode ELSE "STORAGE"

\* The call ends by throwing `thrown`; `origin` is the error first raised.
\* An error that is no AppError leaves the service as it is (kind RAW).  The
\* controller hands what was thrown to next(), and errorHandler answers (sent).
Thrown(call, thrown, origin) ==
    [call EXCEPT !.pc = "done", !.stmts = <<>>, !.tx = NoTx,
                 !.res = [kind |-> IF thrown.cls = "AppError" THEN thrown.errorCode ELSE "RAW",
                          status |-> thrown.status, fields |-> thrown.fields,
                          raised |-> RaisedKind(origin), raisedFields |-> origin.fields,
                          sent |-> errorHandler(thrown)]]

\* The call returns normally.
Returned(call) ==
    [call EXCEPT !.pc = "done", !.stmts = <<>>, !.tx = NoTx,
                 !.res = [kind |-> "OK", status |-> 200, fields |-> {}, raised |-> "none",
                          raisedFields |-> {}, sent |-> [status |-> 200, errorCode |-> "none"]]]

OpBudget == IF target = "auth" THEN MaxAuthOps ELSE MaxOps
CanCall(p) == proc[p].pc \in {"idle", "done"} /\ nOps < OpBudget

\* A service function starts: called directly on its module, or as the
\* handler of a routed request that passed the middleware of its route.
Callable(p, module, op) ==
    \/ target = module /\ CanCall(p)
    \/ target \in {"gate", "auth"} /\ proc[p].pc = "handler" /\ proc[p].op = op
    \/ target = "race" /\ op \in {"createCase", "createOfficer", "register"} /\ CanCall(p)
    \/ target = "roundtrip" /\ op \in {"createCase", "getCaseDetail"} /\ CanCall(p)
    \/ target = "writers" /\ op \in {"createCase", "updateCase"} /\ CanCall(p)
    \/ target = "auth" /\ module \in {"officers", "auth"} /\ CanCall(p)

\* The slot a starting call fills in.
Base(p) ==
    IF proc[p].pc = "handler"
    THEN [Idle EXCEPT !.req = proc[p].req, !.ran = proc[p].ran \cup {"handler"},
                      !.user = proc[p].user]
    ELSE Idle

\* Where a query before the transaction can fail.
PreFaults == {"none", "load", "preflight", "begin"}

-----------------------------------------------------------------------------
(* Callers and payloads of the cases endpoints *)
U1 == [id |-> 1, permissions |-> {"case:create", "case:view_my"}]
U2 == [id |-> 2, permissions |-> {"case:create", "case:view_my"}]
UAdmin == [id |-> 3, permissions |-> {"case:create", "case:view_my", "case:view_all"}]
CaseUsers == {U1, U2, UAdmin}

CaseNos == {"C-001", "C-002"}
MainIds == {1, 2}
Other(m) == 3 - m

P1 == [name |-> "Zhang", roleItemId |-> "11"]
P2 == [name |-> "Li", roleItemId |-> "12"]

\* Bodies createCaseSchema lets through: the required keys, and some of the rest.
ChildVariants(m) ==
    { [officers |-> <<>>, persons |-> <<>>],
      [officers |-> <<[officerId |-> m]>>, persons |-> <<P1>>],
      [officers |-> <<[officerId |-> Other(m), role |-> XIEBAN]>>, persons |-> <<>>] }

StatusVariants ==
    { [officers |-> <<>>, persons |-> <<>>, status |-> YIJIE],
      [officers |-> <<>>, persons |-> <<>>, status |-> YIJIE, closedDate |-> "2024-01-03"],
      [officers |-> <<>>, persons |-> <<>>, status |-> YIJIE, closedDate |-> "2024-01-03",
       resultItemId |-> "5"],
      [officers |-> <<>>, persons |-> <<>>, status |-> YIJIAO, transferTarget |-> Empty,
       transferDate |-> "2024-01-03"],
      [officers |-> <<>>, persons |-> <<>>, status |-> YIJIAO, transferTarget |-> "PCS-2",
       transferDate |-> "2024-01-03"],
      [officers |-> <<>>, persons |-> <<>>, status |-> CUNDANG, archiveLocation |-> "A-1",
       archiveDate |-> "2024-01-03"],
      [officers |-> <<>>, persons |-> <<>>, status |-> YIJIE, deadlineDate |-> "2024-01-01"],
      [officers |-> <<>>, persons |-> <<>>, status |-> Null, deadlineDate |-> "2024-01-03"] }

CreateBase(c, m) == [caseNo |-> c, mainOfficerId |-> m, receivedDate |-> "2024-01-02"]

CreateInputs ==
    { Spread(CreateBase("C-001", 1), v) : v \in ChildVariants(1) \cup StatusVariants }
    \cup { Spread(CreateBase("C-002", 2), v) : v \in ChildVariants(2) }
    \cup { Spread(CreateBase("C-001", 2), v) : v \in {[officers |-> <<>>, persons |-> <<>>]} }

\* Bodies updateCaseSchema lets through (at least one key).
UpdateInputs ==
    { [status |-> YIJIE],
      [status |-> YIJIE, closedDate |-> "2024-01-03", resultItemId |-> "5"],
      [closedDate |-> Null],
      [status |-> YIJIAO, transferTarget |-> "PCS-2", transferDate |-> "2024-01-03"],
      [status |-> CUNDANG],
      [archiveLocation |-> "A-1", archiveDate |-> "2024-01-03"],
      [status |-> ZAIBAN],
      [deadlineDate |-> "2024-01-01"],
      [officers |-> <<>>],
      [officers |-> <<[officerId |-> 2, role |-> XIEBAN]>>],
      [officers |-> <<[officerId |-> 1], [officerId |-> 2]>>, persons |-> <<P2>>],
      [persons |-> <<>>],
      [persons |-> <<P2, P1>>] }
    \cup { [mainOfficerId |-> m] : m \in MainIds }
    \cup { [caseNo |-> c] : c \in CaseNos }

\* The callers an update is tried with: the first officer with every body, the
\* second officer and the administrator with some.
UpdateCalls ==
    { <<data, U1>> : data \in UpdateInputs }
    \cup { <<data, u>> : data \in { [status |-> YIJIE], [officers |-> <<>>], [caseNo |-> "C-001"],
                                    [mainOfficerId |-> 1] },
                         u \in {U2, UAdmin} }

-----------------------------------------------------------------------------
(* config/db.js: withTransaction *)

\* (Variant: a rollback that leaves the statements' writes in the store.)
RollbackTxKeepingWrites(d, t) == CommitCase(d, t)

\* catch (err) { try { rollback } catch { log } throw err }: the store after a
\* failed callback or commit.  The connection's image is discarded, also when
\* the rollback itself fails (the connection is lost and the engine drops
\* its uncommitted work).
RollbackTx(d, t) == d

-----------------------------------------------------------------------------
(* cases/service.js: createCase, updateCase, deleteCase *)

createCase(p, data, user, fault) ==
    /\ Callable(p, "cases", "createCase")
    /\ db.caseAutoInc <= MaxCases
    /\ nOps' = nOps + 1
    /\ LET call == [Idle EXCEPT !.op = "createCase", !.data = data, !.user = user, !.pre = db]
           caseForCheck == Spread(data, [status |-> OrElse(Get(data, "status"), ZAIBAN)])
           v == validateCaseBusinessRules(caseForCheck)
           lost == MysqlError(PROTOCOL_CONNECTION_LOST)
       IN  IF v # NoErr
           THEN /\ proc' = [proc EXCEPT ![p] = Thrown(call, v, v)]
                /\ UNCHANGED <<db, poolOut>>
           ELSE IF fault = "preflight"
           THEN /\ proc' = [proc EXCEPT ![p] = Thrown(call, CaseCatch(lost), lost)]
                /\ UNCHANGED <<db, poolOut>>
           ELSE IF ~Falsy(data.caseNo) /\ CaseNoTaken(db, data.caseNo, 0)
           THEN /\ proc' = [proc EXCEPT ![p] =
                                Thrown(call, CaseCatch(conflict({"caseNo"})), conflict({"caseNo"}))]
                /\ UNCHANGED <<db, poolOut>>
           ELSE IF fault = "begin"
           THEN /\ proc' = [proc EXCEPT ![p] = Thrown(call, CaseCatch(lost), lost)]
                /\ UNCHANGED <<db, poolOut>>
           ELSE /\ proc' = [proc EXCEPT ![p] =
                                [call EXCEPT !.pc = "txn", !.stmts = CreateCaseStmts(data)]]
                /\ poolOut' = poolOut + 1
                /\ UNCHANGED db
    /\ UNCHANGED <<issued, target>>

\* Variant: the stored row's status and gated fields are not carried over.
MergedCasePatchOnly(existingCase, data) ==
    Spread([k \in {"caseNo", "mainOfficerId", "receivedDate", "deadlineDate"} |-> existingCase[k]],
           data)
\* const mergedCase = { ...existingCase, ...data }
MergedCase(existingCase, data) == Spread(existingCase, data)

updateCase(p, id, data, user, fault) ==
    /\ Callable(p, "cases", "updateCase")
    /\ nOps' = nOps + 1
    /\ LET call == [Idle EXCEPT !.op = "updateCase", !.id = id, !.data = data,
                                !.user = user, !.pre = db]
           lost == MysqlError(PROTOCOL_CONNECTION_LOST)
           existingCase == db.caseRecords[id]
           isMain == existingCase.mainOfficerId = user.id
           isAdmin == hasPermission(user, "case:view_all")
           checksCaseNo == Has(data, "caseNo") /\ ~Falsy(data.caseNo)
                           /\ data.caseNo # existingCase.caseNo
           mergedCase == MergedCase(existingCase, data)
           v == validateCaseBusinessRules(mergedCase)
       IN  IF fault = "load"
           THEN /\ proc' = [proc EXCEPT ![p] = Thrown(call, CaseCatch(lost), lost)]
                /\ UNCHANGED <<db, poolOut>>
           ELSE IF existingCase = NoRow
           THEN /\ proc' = [proc EXCEPT ![p] = Thrown(call, CaseCatch(notFound), notFound)]
                /\ UNCHANGED <<db, poolOut>>
           ELSE IF ~isMain /\ ~isAdmin
           THEN /\ proc' = [proc EXCEPT ![p] = Thrown(call, CaseCatch(forbidden), forbidden)]
                /\ UNCHANGED <<db, poolOut>>
           ELSE IF checksCaseNo /\ fault = "preflight"
           THEN /\ proc' = [proc EXCEPT ![p] = Thrown(call, CaseCatch(lost), lost)]
                /\ UNCHANGED <<db, poolOut>>
           ELSE IF checksCaseNo /\ CaseNoTaken(db, data.caseNo, id)
           THEN /\ proc' = [proc EXCEPT ![p] =
                                Thrown(call, CaseCatch(conflict({"caseNo"})), conflict({"caseNo"}))]
                /\ UNCHANGED <<db, poolOut>>
           ELSE IF v # NoErr
           THEN /\ proc' = [proc EXCEPT ![p] = Thrown(call, CaseCatch(v), v)]
                /\ UNCHANGED <<db, poolOut>>
           ELSE IF fault = "begin"
           THEN /\ proc' = [proc EXCEPT ![p] = Thrown(call, CaseCatch(lost), lost)]
                /\ UNCHANGED <<db, poolOut>>
           ELSE /\ proc' = [proc EXCEPT ![p] =
                                [call EXCEPT !.pc = "txn",
                                             !.stmts = UpdateCaseStmts(data, mergedCase)]]
                /\ poolOut' = poolOut + 1
                /\ UNCHANGED db
    /\ UNCHANGED <<issued, target>>

\* Variant: a case of any status is deleted.
deleteCaseAnyStatus(p, id, user, fault) ==
    /\ Callable(p, "cases", "deleteCase")
    /\ nOps' = nOps + 1
    /\ LET call == [Idle EXCEPT !.op = "deleteCase", !.id = id, !.user = user, !.pre = db]
           lost == MysqlError(PROTOCOL_CONNECTION_LOST)
           record == db.caseRecords[id]
           isMain == record.mainOfficerId = user.id
           isAdmin == hasPermission(user, "case:view_all")
       IN  IF fault = "load"
           THEN /\ proc' = [proc EXCEPT ![p] = Thrown(call, CaseCatch(lost), lost)]
                /\ UNCHANGED <<db, poolOut>>
           ELSE IF record = NoRow
           THEN /\ proc' = [proc EXCEPT ![p] = Thrown(call, CaseCatch(notFound), notFound)]
                /\ UNCHANGED <<db, poolOut>>
           ELSE IF ~isMain /\ ~isAdmin
           THEN /\ proc' = [proc EXCEPT ![p] = Thrown(call, CaseCatch(forbidden), forbidden)]
                /\ UNCHANGED <<db, poolOut>>
           ELSE IF fault = "begin"
           THEN /\ proc' = [proc EXCEPT ![p] = Thrown(call, CaseCatch(lost), lost)]
                /\ UNCHANGED <<db, poolOut>>
           ELSE /\ proc' = [proc EXCEPT ![p] = [call EXCEPT !.pc = "txn", !.stmts = DeleteCaseStmts]]
                /\ poolOut' = poolOut + 1
                /\ UNCHANGED db
    /\ UNCHANGED <<issued, target>>

\* deleteCase(id, currentUser)
deleteCase(p, id, user, fault) ==
    /\ Callable(p, "cases", "deleteCase")
    /\ nOps' = nOps + 1
    /\ LET call == [Idle EXCEPT !.op = "deleteCase", !.id = id, !.user = user, !.pre = db]
           lost == MysqlError(PROTOCOL_CONNECTION_LOST)
           record == db.caseRecords[id]
           isMain == record.mainOfficerId = user.id
           isAdmin == hasPermission(user, "case:view_all")
       IN  IF fault = "load"
           THEN /\ proc' = [proc EXCEPT ![p] = Thrown(call, CaseCatch(lost), lost)]
                /\ UNCHANGED <<db, poolOut>>
           ELSE IF record = NoRow
           THEN /\ proc' = [proc EXCEPT ![p] = Thrown(call, CaseCatch(notFound), notFound)]
                /\ UNCHANGED <<db, poolOut>>
           ELSE IF ~isMain /\ ~isAdmin
           THEN /\ proc' = [proc EXCEPT ![p] = Thrown(call, CaseCatch(forbidden), forbidden)]
                /\ UNCHANGED <<db, poolOut>>
           ELSE IF record.status # ZAIBAN
           THEN /\ proc' = [proc EXCEPT ![p] =
                                Thrown(call, CaseCatch(validationError({"status"})),
                                       validationError({"status"}))]
                /\ UNCHANGED <<db, poolOut>>
           ELSE IF fault = "begin"
           THEN /\ proc' = [proc EXCEPT ![p] = Thrown(call, CaseCatch(lost), lost)]
                /\ UNCHANGED <<db, poolOut>>
           ELSE /\ proc' = [proc EXCEPT ![p] = [call EXCEPT !.pc = "txn", !.stmts = DeleteCaseStmts]]
                /\ poolOut' = poolOut + 1
                /\ UNCHANGED db
    /\ UNCHANGED <<issued, target>>

\* One statement of the callback of a cases transaction runs on the connection;
\* when it throws, withTransaction rolls back, releases the connection and
\* rethrows to the service's catch block.
\* A statement waits while another connection's open transaction holds an
\* uncommitted row with the unique value it writes.
CaseBlockedByUniqueKeyOnly(p, s) ==
    /\ s.k \in {"INSERT_CASE", "UPDATE_CASE"}
    /\ \E q \in Procs \ {p} :
          /\ proc[q].pc = "txn"
          /\ proc[q].op \in {"createCase", "updateCase"}
          /\ proc[q].tx.row # NoRow
          /\ proc[q].tx.row.caseNo = s.row.caseNo
\* ... or holds the lock of the case_records row (WHERE id = ?) it writes.
CaseBlocked(p, s) ==
    \/ CaseBlockedByUniqueKeyOnly(p, s)
    \/ /\ s.k \in {"UPDATE_CASE", "DELETE_CASE"}
       /\ \E q \in Procs \ {p} :
             /\ proc[q].pc = "txn"
             /\ proc[q].op \in {"createCase", "updateCase", "deleteCase"}
             /\ proc[q].tx.id = proc[p].id

CaseTxStmt(p, fault) ==
    /\ proc[p].pc = "txn"
    /\ proc[p].op \in {"createCase", "updateCase", "deleteCase"}
    /\ proc[p].stmts # <<>>
    /\ ~CaseBlocked(p, Head(proc[p].stmts))
    /\ Head(proc[p].stmts).k = "INSERT_CASE" => db.caseAutoInc <= MaxCases
    /\ LET s == Head(proc[p].stmts)
           r == IF fault # "none" THEN [err |-> fault, tx |-> proc[p].tx]
                ELSE ExecCaseStmt(db, proc[p].tx, proc[p].id, s)
       IN  IF r.err = "none"
           THEN /\ proc' = [proc EXCEPT ![p].tx = r.tx, ![p].stmts = Tail(@),
                                         ![p].nStmts = @ + 1]
                /\ db' = IF s.k = "INSERT_CASE"
                         THEN [db EXCEPT !.caseAutoInc = @ + 1] ELSE db
                /\ UNCHANGED poolOut
           ELSE /\ proc' = [proc EXCEPT ![p] =
                                Thrown(proc[p], CaseCatch(MysqlError(r.err)), MysqlError(r.err))]
                /\ db' = RollbackTx(db, proc[p].tx)
                /\ poolOut' = poolOut - 1
    /\ UNCHANGED <<issued, target, nOps>>

\* The callback returned: connection.commit(), which can fail as any statement.
CaseTxCommit(p, fault) ==
    /\ proc[p].pc = "txn"
    /\ proc[p].op \in {"createCase", "updateCase", "deleteCase"}
    /\ proc[p].stmts = <<>>
    /\ IF fault = "none"
       THEN /\ db' = CommitCase(db, proc[p].tx)
            /\ proc' = [proc EXCEPT ![p] = Returned(proc[p])]
       ELSE /\ db' = RollbackTx(db, proc[p].tx)
            /\ proc' = [proc EXCEPT ![p] =
                            Thrown(proc[p], CaseCatch(MysqlError(fault)), MysqlError(fault))]
    /\ poolOut' = poolOut - 1
    /\ UNCHANGED <<issued, target, nOps>>


\* getCaseDetail: no catch block, what it throws reaches the controller as it is.
\* What getCaseDetail returns: the parent row, then the officers and the
\* persons of the case ORDER BY id ASC, the order of their insertion.
\* (Variant first: the child rows newest first.)
CaseDetailNewestFirst(d, id) ==
    [case |-> d.caseRecords[id],
     officers |-> [i \in 1..Len(d.caseOfficers[id]) |->
                      d.caseOfficers[id][Len(d.caseOfficers[id]) + 1 - i]],
     persons |-> [i \in 1..Len(d.casePersons[id]) |->
                     d.casePersons[id][Len(d.casePersons[id]) + 1 - i]]]
CaseDetail(d, id) ==
    [case |-> d.caseRecords[id], officers |-> d.caseOfficers[id], persons |-> d.casePersons[id]]

getCaseDetail(p, id, user, fault) ==
    /\ Callable(p, "cases", "getCaseDetail")
    /\ nOps' = nOps + 1
    /\ LET call == [Base(p) EXCEPT !.op = "getCaseDetail", !.id = id, !.user = user, !.pre = db]
           lost == MysqlError(PROTOCOL_CONNECTION_LOST)
           caseRow == db.caseRecords[id]
           canViewAll == hasPermission(user, "case:view_all")
           isMain == caseRow.mainOfficerId = user.id
           isParticipant ==
               isMain \/ \E i \in 1..Len(db.caseOfficers[id]) : db.caseOfficers[id][i].officerId = user.id
       IN  proc' = [proc EXCEPT ![p] =
                IF fault = "load" THEN Thrown(call, lost, lost)
                ELSE IF caseRow = NoRow THEN Thrown(call, notFound, notFound)
                ELSE IF ~canViewAll /\ ~isParticipant THEN Thrown(call, forbidden, forbidden)
                ELSE Returned([call EXCEPT !.data = CaseDetail(db, id)])]
    /\ UNCHANGED <<issued, target, db, poolOut>>

\* The WHERE clause of "my cases": main officer, or a case_officers row.
Participates(d, id, user) ==
    \/ d.caseRecords[id].mainOfficerId = user.id
    \/ \E i \in 1..Len(d.caseOfficers[id]) : d.caseOfficers[id][i].officerId = user.id

\* The ids listCases selects.  keyword, type, status and the date range are
\* absent from the queries drawn here; page 1 of 20 holds every stored case.
ListedCases(d, query, user, effectiveScope) ==
    LET canViewAll == hasPermission(user, "case:view_all")
    IN  { id \in CaseIds :
            /\ d.caseRecords[id] # NoRow
            /\ (Has(query, "mainOfficerId") /\ query.mainOfficerId # 0 /\ canViewAll) =>
                   d.caseRecords[id].mainOfficerId = query.mainOfficerId
            /\ effectiveScope = "my" => Participates(d, id, user) }

\* Variant: the scope of the query is taken as asked.
listCasesTrustingScope(p, query, user, fault) ==
    /\ Callable(p, "cases", "listCases")
    /\ nOps' = nOps + 1
    /\ LET call == [Base(p) EXCEPT !.op = "listCases", !.user = user, !.pre = db]
           lost == MysqlError(PROTOCOL_CONNECTION_LOST)
           scope == IF Has(query, "scope") THEN query.scope ELSE "my"
           items == ListedCases(db, query, user, scope)
       IN  proc' = [proc EXCEPT ![p] =
                IF fault = "load" THEN Thrown(call, lost, lost)
                ELSE Returned([call EXCEPT !.data = [query |-> query, items |-> items,
                                                     total |-> Cardinality(items)]])]
    /\ UNCHANGED <<issued, target, db, poolOut>>

\* listCases(query, currentUser): no try block, a failing query leaves raw.
listCases(p, query, user, fault) ==
    /\ Callable(p, "cases", "listCases")
    /\ nOps' = nOps + 1
    /\ LET call == [Base(p) EXCEPT !.op = "listCases", !.user = user, !.pre = db]
           lost == MysqlError(PROTOCOL_CONNECTION_LOST)
           scope == IF Has(query, "scope") THEN query.scope ELSE "my"
           canViewAll == hasPermission(user, "case:view_all")
           effectiveScope == IF scope = "all" /\ canViewAll THEN "all" ELSE "my"
           items == ListedCases(db, query, user, effectiveScope)
       IN  proc' = [proc EXCEPT ![p] =
                IF fault = "load" THEN Thrown(call, lost, lost)
                ELSE Returned([call EXCEPT !.data = [query |-> query, items |-> items,
                                                     total |-> Cardinality(items)]])]
    /\ UNCHANGED <<issued, target, db, poolOut>>

\* The queries of GET /cases: listCasesQuerySchema fills in page and pageSize.
ListQueries ==
    LET paged == [page |-> 1, pageSize |-> 20]
    IN  { paged, Spread(paged, [scope |-> "all"]),
          Spread(paged, [scope |-> "all", mainOfficerId |-> 1]),
          Spread(paged, [scope |-> "my", mainOfficerId |-> 2]),
          Spread(paged, [mainOfficerId |-> 2]) }

-----------------------------------------------------------------------------
(* officers/service.js *)
MaxOfficers == 2
OfficerIds == 1..MaxOfficers

\* SELECT id FROM police_officers WHERE badge_no = ? [AND id <> ?]
BadgeNoTaken(d, badgeNo, excludeId) ==
    \E i \in OfficerIds : i # excludeId /\ d.policeOfficers[i] # NoRow
                          /\ d.policeOfficers[i].badgeNo = badgeNo

\* (Variant first: the check is left to the unique index.)
ensureBadgeNoUniqueLeftToIndex(d, badgeNo, excludeId) == NoErr
\* The Conflict ensureBadgeNoUnique throws, or NoErr when it returns.
ensureBadgeNoUnique(d, badgeNo, excludeId) ==
    IF Falsy(badgeNo) THEN NoErr
    ELSE IF BadgeNoTaken(d, badgeNo, excludeId) THEN conflict({})
    ELSE NoErr

\* The catch blocks of createOfficer and updateOfficer, after the rollback.
\* (Variant first: a catch block without the ER_DUP_ENTRY branch.)
OfficerCatchWithoutDup(err) == dbError
OfficerCatch(err) == IF err.code = ER_DUP_ENTRY THEN conflict({}) ELSE dbError

\* The column values createOfficer binds to its INSERT.
NewOfficerRow(payload) ==
    [name |-> payload.name,
     badgeNo |-> OrNull(Get(payload, "badgeNo")),
     status |-> OrElse(Get(payload, "status"), "ACTIVE"),
     isActive |-> IF Has(payload, "isActive") THEN (IF payload.isActive THEN 1 ELSE 0) ELSE 1]

\* The column values updateOfficer binds to its UPDATE.
MergedOfficerRow(existing, payload) ==
    LET newBadgeNo == IF Has(payload, "badgeNo") THEN payload.badgeNo ELSE existing.badgeNo
        newName == IF isNil(Get(payload, "name")) THEN existing.name ELSE payload.name
        newStatus == IF Has(payload, "status") THEN payload.status ELSE existing.status
        newIsActive == IF Has(payload, "isActive") THEN (IF payload.isActive THEN 1 ELSE 0)
                       ELSE existing.isActive
    IN  [name |-> newName, badgeNo |-> OrNull(newBadgeNo), status |-> OrNull(newStatus),
         isActive |-> newIsActive]

RoleInsert(roleIds) ==
    IF Len(roleIds) > 0 THEN <<Stmt("INSERT_ROLES", NoRow, roleIds)>> ELSE <<>>

CreateOfficerStmts(payload) ==
    <<Stmt("INSERT_OFFICER_ROW", NewOfficerRow(payload), NoKid)>>
    \o RoleInsert(IF Has(payload, "roleIds") THEN payload.roleIds ELSE <<>>)

UpdateOfficerStmts(existing, payload) ==
    <<Stmt("UPDATE_OFFICER_ROW", MergedOfficerRow(existing, payload), NoKid)>>
    \o (IF Has(payload, "roleIds")
        THEN <<Stmt("DELETE_ROLES", NoRow, NoKid)>> \o RoleInsert(payload.roleIds)
        ELSE <<>>)

\* What the engine does with one statement of an officers transaction.
\* badge_no is unique; NULL badge numbers do not collide.
ExecOfficerStmt(d, t, id, s) ==
    CASE s.k = "INSERT_OFFICER_ROW" ->
            IF s.row.badgeNo # Null /\ BadgeNoTaken(d, s.row.badgeNo, 0)
            THEN [err |-> ER_DUP_ENTRY, tx |-> t]
            ELSE [err |-> "none", tx |-> [id |-> d.officerAutoInc, row |-> s.row, c1 |-> {}, c2 |-> <<>>]]
      [] s.k = "UPDATE_OFFICER_ROW" ->
            IF d.policeOfficers[id] # NoRow /\ s.row.badgeNo # Null /\ BadgeNoTaken(d, s.row.badgeNo, id)
            THEN [err |-> ER_DUP_ENTRY, tx |-> t]
            ELSE [err |-> "none",
                  tx |-> [id |-> id,
                          row |-> IF d.policeOfficers[id] = NoRow THEN NoRow ELSE s.row,
                          c1 |-> d.officerRoles[id], c2 |-> <<>>]]
      [] s.k = "DELETE_ROLES" -> [err |-> "none", tx |-> [t EXCEPT !.c1 = {}]]
      [] s.k = "INSERT_ROLES" ->
            IF t.row = NoRow THEN [err |-> ER_NO_REFERENCED_ROW_2, tx |-> t]
            ELSE [err |-> "none", tx |-> [t EXCEPT !.c1 = @ \cup {s.kid[i] : i \in 1..Len(s.kid)}]]

CommitOfficer(d, t) ==
    IF t.id = 0 THEN d
    ELSE [d EXCEPT !.policeOfficers[t.id] = t.row, !.officerRoles[t.id] = t.c1]

\* conn.rollback() in the catch blocks of createOfficer and updateOfficer
RollbackOfficerTx(d, t) == d

\* Where createOfficer and updateOfficer can fail before their first statement.
OfficerPreFaults == {"none", "load", "preflight", "connect", "begin"}

createOfficer(p, payload, fault, rollbackFails) ==
    /\ Callable(p, "officers", "createOfficer")
    /\ db.officerAutoInc <= MaxOfficers
    /\ nOps' = nOps + 1
    /\ LET call == [Idle EXCEPT !.op = "createOfficer", !.data = payload, !.pre = db]
           lost == MysqlError(PROTOCOL_CONNECTION_LOST)
           dup == ensureBadgeNoUnique(db, Get(payload, "badgeNo"), 0)
       IN  IF fault = "preflight" /\ ~Falsy(Get(payload, "badgeNo"))
           THEN /\ proc' = [proc EXCEPT ![p] = Thrown(call, lost, lost)]
                /\ UNCHANGED <<db, poolOut>>
           ELSE IF dup # NoErr
           THEN /\ proc' = [proc EXCEPT ![p] = Thrown(call, dup, dup)]
                /\ UNCHANGED <<db, poolOut>>
           ELSE IF fault = "connect"
           THEN /\ proc' = [proc EXCEPT ![p] = Thrown(call, lost, lost)]
                /\ UNCHANGED <<db, poolOut>>
           ELSE IF fault = "begin"
           THEN /\ proc' = [proc EXCEPT ![p] =
                                IF rollbackFails THEN Thrown(call, lost, lost)
                                ELSE Thrown(call, OfficerCatch(lost), lost)]
                /\ UNCHANGED <<db, poolOut>>
           ELSE /\ proc' = [proc EXCEPT ![p] =
                                [call EXCEPT !.pc = "txn", !.stmts = CreateOfficerStmts(payload)]]
                /\ poolOut' = poolOut + 1
                /\ UNCHANGED db
    /\ UNCHANGED <<issued, target>>

updateOfficer(p, id, payload, fault, rollbackFails) ==
    /\ Callable(p, "officers", "updateOfficer")
    /\ nOps' = nOps + 1
    /\ LET call == [Idle EXCEPT !.op = "updateOfficer", !.id = id, !.data = payload, !.pre = db]
           lost == MysqlError(PROTOCOL_CONNECTION_LOST)
           existing == db.policeOfficers[id]
           newBadgeNo == IF Has(payload, "badgeNo") THEN payload.badgeNo ELSE existing.badgeNo
           dup == ensureBadgeNoUnique(db, newBadgeNo, id)
       IN  IF fault = "load"
           THEN /\ proc' = [proc EXCEPT ![p] = Thrown(call, lost, lost)]
                /\ UNCHANGED <<db, poolOut>>
           ELSE IF existing = NoRow
           THEN /\ proc' = [proc EXCEPT ![p] = Thrown(call, notFound, notFound)]
                /\ UNCHANGED <<db, poolOut>>
           ELSE IF fault = "preflight" /\ ~Falsy(newBadgeNo)
           THEN /\ proc' = [proc EXCEPT ![p] = Thrown(call, lost, lost)]
                /\ UNCHANGED <<db, poolOut>>
           ELSE IF dup # NoErr
           THEN /\ proc' = [proc EXCEPT ![p] = Thrown(call, dup, dup)]
                /\ UNCHANGED <<db, poolOut>>
           ELSE IF fault = "connect"
           THEN /\ proc' = [proc EXCEPT ![p] = Thrown(call, lost, lost)]
                /\ UNCHANGED <<db, poolOut>>
           ELSE IF fault = "begin"
           THEN /\ proc' = [proc EXCEPT ![p] =
                                IF rollbackFails THEN Thrown(call, lost, lost)
                                ELSE Thrown(call, OfficerCatch(lost), lost)]
                /\ UNCHANGED <<db, poolOut>>
           ELSE /\ proc' = [proc EXCEPT ![p] =
                                [call EXCEPT !.pc = "txn",
                                             !.stmts = UpdateOfficerStmts(existing, payload)]]
                /\ poolOut' = poolOut + 1
                /\ UNCHANGED db
    /\ UNCHANGED <<issued, target>>

\* One statement of createOfficer / updateOfficer on the connection.  When it
\* throws, the catch block awaits conn.rollback(): if that throws too, its
\* exception is what leaves the function; finally releases the connection.
OfficerBlocked(p, s) ==
    /\ s.k \in {"INSERT_OFFICER_ROW", "UPDATE_OFFICER_ROW"}
    /\ s.row.badgeNo # Null
    /\ \E q \in Procs \ {p} :
          /\ proc[q].pc = "txn"
          /\ proc[q].op \in {"createOfficer", "updateOfficer"}
          /\ proc[q].tx.row # NoRow
          /\ proc[q].tx.row.badgeNo = s.row.badgeNo

\* (Variant first: the connection is released at the end of the catch block,
\* which a failing rollback never reaches.)
OfficerTxStmtReleasingInCatch(p, fault, rollbackFails) ==
    /\ proc[p].pc = "txn"
    /\ proc[p].op \in {"createOfficer", "updateOfficer"}
    /\ proc[p].stmts # <<>>
    /\ ~OfficerBlocked(p, Head(proc[p].stmts))
    /\ Head(proc[p].stmts).k = "INSERT_OFFICER_ROW" => db.officerAutoInc <= MaxOfficers
    /\ LET s == Head(proc[p].stmts)
           lost == MysqlError(PROTOCOL_CONNECTION_LOST)
           r == IF fault # "none" THEN [err |-> fault, tx |-> proc[p].tx]
                ELSE ExecOfficerStmt(db, proc[p].tx, proc[p].id, s)
       IN  IF r.err = "none"
           THEN /\ ~rollbackFails
                /\ proc' = [proc EXCEPT ![p].tx = r.tx, ![p].stmts = Tail(@),
                                         ![p].nStmts = @ + 1]
                /\ db' = IF s.k = "INSERT_OFFICER_ROW"
                         THEN [db EXCEPT !.officerAutoInc = @ + 1] ELSE db
                /\ UNCHANGED poolOut
           ELSE /\ proc' = [proc EXCEPT ![p] =
                                IF rollbackFails THEN Thrown(proc[p], lost, MysqlError(r.err))
                                ELSE Thrown(proc[p], OfficerCatch(MysqlError(r.err)), MysqlError(r.err))]
                /\ db' = RollbackOfficerTx(db, proc[p].tx)
                /\ poolOut' = IF rollbackFails THEN poolOut ELSE poolOut - 1
    /\ UNCHANGED <<issued, target, nOps>>
OfficerTxStmt(p, fault, rollbackFails) ==
    /\ proc[p].pc = "txn"
    /\ proc[p].op \in {"createOfficer", "updateOfficer"}
    /\ proc[p].stmts # <<>>
    /\ ~OfficerBlocked(p, Head(proc[p].stmts))
    /\ Head(proc[p].stmts).k = "INSERT_OFFICER_ROW" => db.officerAutoInc <= MaxOfficers
    /\ LET s == Head(proc[p].stmts)
           lost == MysqlError(PROTOCOL_CONNECTION_LOST)
           r == IF fault # "none" THEN [err |-> fault, tx |-> proc[p].tx]
                ELSE ExecOfficerStmt(db, proc[p].tx, proc[p].id, s)
       IN  IF r.err = "none"
           THEN /\ ~rollbackFails
                /\ proc' = [proc EXCEPT ![p].tx = r.tx, ![p].stmts = Tail(@),
                                         ![p].nStmts = @ + 1]
                /\ db' = IF s.k = "INSERT_OFFICER_ROW"
                         THEN [db EXCEPT !.officerAutoInc = @ + 1] ELSE db
                /\ UNCHANGED poolOut
           ELSE /\ proc' = [proc EXCEPT ![p] =
                                IF rollbackFails THEN Thrown(proc[p], lost, MysqlError(r.err))
                                ELSE Thrown(proc[p], OfficerCatch(MysqlError(r.err)), MysqlError(r.err))]
                /\ db' = RollbackOfficerTx(db, proc[p].tx)
                /\ poolOut' = poolOut - 1
    /\ UNCHANGED <<issued, target, nOps>>

\* conn.commit(), then the rest of the try block: updateOfficer without a
\* roleIds key reads the stored roles back with one more query ("post").
OfficerTxCommit(p, fault, rollbackFails) ==
    /\ proc[p].pc = "txn"
    /\ proc[p].op \in {"createOfficer", "updateOfficer"}
    /\ proc[p].stmts = <<>>
    /\ fault = "post" => (proc[p].op = "updateOfficer" /\ ~Has(proc[p].data, "roleIds"))
    /\ LET lost == MysqlError(PROTOCOL_CONNECTION_LOST)
           failed == IF rollbackFails THEN Thrown(proc[p], lost, lost)
                     ELSE Thrown(proc[p], OfficerCatch(lost), lost)
       IN  CASE fault = "none" ->
                  /\ ~rollbackFails
                  /\ db' = CommitOfficer(db, proc[p].tx)
                  /\ proc' = [proc EXCEPT ![p] = Returned(proc[p])]
             [] fault = "commit" ->
                  /\ db' = RollbackOfficerTx(db, proc[p].tx)
                  /\ proc' = [proc EXCEPT ![p] = failed]
             [] fault = "post" ->
                  /\ db' = CommitOfficer(db, proc[p].tx)
                  /\ proc' = [proc EXCEPT ![p] = failed]
    /\ poolOut' = poolOut - 1
    /\ UNCHANGED <<issued, target, nOps>>

\* deleteOfficer: two autocommit queries, no catch block.
\* (Variant first: a deletion that removes the row.)
deleteOfficerHard(p, id, fault) ==
    /\ Callable(p, "officers", "deleteOfficer")
    /\ nOps' = nOps + 1
    /\ LET call == [Base(p) EXCEPT !.op = "deleteOfficer", !.id = id, !.pre = db]
           lost == MysqlError(PROTOCOL_CONNECTION_LOST)
       IN  IF fault \in {"load", "write"}
           THEN /\ proc' = [proc EXCEPT ![p] = Thrown(call, lost, lost)]
                /\ UNCHANGED db
           ELSE IF db.policeOfficers[id] = NoRow
           THEN /\ proc' = [proc EXCEPT ![p] = Thrown(call, notFound, notFound)]
                /\ UNCHANGED db
           ELSE /\ proc' = [proc EXCEPT ![p] = Returned(call)]
                /\ db' = [db EXCEPT !.policeOfficers[id] = NoRow]
    /\ UNCHANGED <<issued, target, poolOut>>
deleteOfficer(p, id, fault) ==
    /\ Callable(p, "officers", "deleteOfficer")
    /\ nOps' = nOps + 1
    /\ LET call == [Base(p) EXCEPT !.op = "deleteOfficer", !.id = id, !.pre = db]
           lost == MysqlError(PROTOCOL_CONNECTION_LOST)
       IN  IF fault \in {"load", "write"}
           THEN /\ proc' = [proc EXCEPT ![p] = Thrown(call, lost, lost)]
                /\ UNCHANGED db
           ELSE IF db.policeOfficers[id] = NoRow
           THEN /\ proc' = [proc EXCEPT ![p] = Thrown(call, notFound, notFound)]
                /\ UNCHANGED db
           ELSE /\ proc' = [proc EXCEPT ![p] = Returned(call)]
                /\ db' = [db EXCEPT !.policeOfficers[id].status = "LOCKED",
                                    !.policeOfficers[id].isActive = 0]
    /\ UNCHANGED <<issued, target, poolOut>>

\* Bodies saveBodySchema lets through (name is required on create and update).
OfficerInputs ==
    { [name |-> "Wang", badgeNo |-> "B-1"],
      [name |-> "Wang", badgeNo |-> "B-2", roleIds |-> <<1>>],
      [name |-> "Zhao", badgeNo |-> "B-1", roleIds |-> <<1, 2>>],
      [name |-> "Zhao", badgeNo |-> "B-2", roleIds |-> <<>>],
      [name |-> "Zhao", badgeNo |-> Empty, roleIds |-> <<2>>],
      [name |-> "Zhao", badgeNo |-> Null],
      [name |-> "Zhao"],
      [name |-> "Zhao", status |-> "INACTIVE", isActive |-> FALSE, roleIds |-> <<2>>] }

-----------------------------------------------------------------------------
(* auth/service.js: register, login, getCurrentUser *)
MaxTokens == 2

\* The reference rows of roles and role_permissions the store starts with.
RoleIds == {1, 2}
Roles == [r \in RoleIds |-> IF r = 1 THEN [code |-> "ADMIN"] ELSE [code |-> "OFFICER"]]
RolePermissions ==
    [r \in RoleIds |-> IF r = 1 THEN {"user:manage", "community:manage", "case:view_all"}
                       ELSE {"community:manage", "case:create", "case:view_my"}]

\* bcrypt.hash(password, 10) and bcrypt.compare(password, hash)
bcryptHash(password) ==
    CASE password = "pw1" -> "$2a$10$pw1"
      [] password = "pw2" -> "$2a$10$pw2"
      [] OTHER -> "$2a$10$"
bcryptCompare(password, hash) == hash = bcryptHash(password)

\* findOfficerByBadgeNo: the id of the row found, 0 for null
findOfficerByBadgeNo(d, badgeNo) ==
    IF \E i \in OfficerIds : d.policeOfficers[i] # NoRow /\ d.policeOfficers[i].badgeNo = badgeNo
    THEN CHOOSE i \in OfficerIds : d.policeOfficers[i] # NoRow /\ d.policeOfficers[i].badgeNo = badgeNo
    ELSE 0

\* loadRolesAndPermissions(officerId): officer_roles JOIN roles, then the
\* DISTINCT permission codes of those roles (none when there is no role).
\* (Variant first: the permissions of one of the roles only.)
loadRolesAndPermissionsOfOneRole(d, officerId) ==
    LET roleIds == {r \in d.officerRoles[officerId] : r \in DOMAIN d.roles}
    IN  [roleIds |-> roleIds,
         roles |-> {d.roles[r].code : r \in roleIds},
         permissions |-> IF roleIds # {}
                         THEN d.rolePermissions[CHOOSE r \in roleIds : \A q \in roleIds : r <= q]
                         ELSE {}]
loadRolesAndPermissions(d, officerId) ==
    LET roleIds == {r \in d.officerRoles[officerId] : r \in DOMAIN d.roles}
    IN  [roleIds |-> roleIds,
         roles |-> {d.roles[r].code : r \in roleIds},
         permissions |-> IF roleIds # {} THEN UNION {d.rolePermissions[r] : r \in roleIds} ELSE {}]

\* The payload login and register sign.
tokenPayload(id, row, extra) ==
    [id |-> id, badgeNo |-> row.badgeNo, name |-> row.name,
     roles |-> extra.roles, permissions |-> extra.permissions]

\* signToken(payload) at day now
signToken(payload, now) == [iat |-> now, payload |-> payload]

IssueDays == {0, 1}

\* register, up to the await of bcrypt.hash: the checks and the existence query.
register(p, payload, fault) ==
    /\ Callable(p, "auth", "register")
    /\ nOps' = nOps + 1
    /\ LET call == [Idle EXCEPT !.op = "register", !.data = payload, !.pre = db]
           lost == MysqlError(PROTOCOL_CONNECTION_LOST)
           invalid == validationError({})
           existed == findOfficerByBadgeNo(db, payload.badgeNo)
       IN  proc' = [proc EXCEPT ![p] =
                IF Falsy(Get(payload, "badgeNo")) \/ Falsy(Get(payload, "name"))
                   \/ Falsy(Get(payload, "password"))
                THEN Thrown(call, invalid, invalid)
                ELSE IF fault = "load" THEN Thrown(call, lost, lost)
                ELSE IF existed # 0 THEN Thrown(call, conflict({}), conflict({}))
                ELSE [call EXCEPT !.pc = "insert"]]
    /\ UNCHANGED <<issued, target, db, poolOut>>

\* register, from the INSERT on: any exception of the INSERT becomes dbError;
\* otherwise a token without roles or permissions is signed.
RegisterInsert(p, fault, now) ==
    /\ proc[p].pc = "insert"
    /\ proc[p].op = "register"
    /\ db.officerAutoInc <= MaxOfficers
    /\ Len(issued) < MaxTokens
    /\ ~OfficerBlocked(p, [k |-> "INSERT_OFFICER_ROW", row |-> [badgeNo |-> proc[p].data.badgeNo]])
    /\ LET payload == proc[p].data
           row == [name |-> payload.name, badgeNo |-> payload.badgeNo,
                   status |-> "ACTIVE", isActive |-> 1]
           id == db.officerAutoInc
           err == IF fault # "none" THEN MysqlError(fault)
                  ELSE IF BadgeNoTaken(db, payload.badgeNo, 0) THEN MysqlError(ER_DUP_ENTRY)
                  ELSE NoErr
           extra == [roleIds |-> {}, roles |-> {}, permissions |-> {}]
       IN  IF err # NoErr
           THEN /\ proc' = [proc EXCEPT ![p] = Thrown(proc[p], dbError, err)]
                /\ UNCHANGED <<db, issued>>
           ELSE /\ db' = [db EXCEPT !.policeOfficers[id] = row,
                                    !.passwordHash[id] = bcryptHash(payload.password),
                                    !.officerAutoInc = @ + 1]
                /\ issued' = Append(issued, signToken(tokenPayload(id, row, extra), now))
                /\ proc' = [proc EXCEPT ![p] = Returned([proc[p] EXCEPT !.id = id])]
    /\ UNCHANGED <<target, poolOut, nOps>>

\* Variant: login without the test of the status.
loginIgnoringLock(p, payload, now) ==
    /\ Callable(p, "auth", "login")
    /\ Len(issued) < MaxTokens
    /\ nOps' = nOps + 1
    /\ LET call == [Idle EXCEPT !.op = "login", !.data = payload, !.pre = db]
           id == findOfficerByBadgeNo(db, payload.badgeNo)
           officer == db.policeOfficers[id]
           ok == bcryptCompare(payload.password, OrElse(db.passwordHash[id], Empty))
           extra == loadRolesAndPermissions(db, id)
       IN  IF id = 0 \/ ~ok
           THEN /\ proc' = [proc EXCEPT ![p] = Thrown(call, unauthorized, unauthorized)]
                /\ UNCHANGED issued
           ELSE /\ proc' = [proc EXCEPT ![p] = Returned([call EXCEPT !.id = id])]
                /\ issued' = Append(issued, signToken(tokenPayload(id, officer, extra), now))
    /\ UNCHANGED <<target, db, poolOut>>

\* login: no catch block; a token with the roles and permissions loaded now.
login(p, payload, now) ==
    /\ Callable(p, "auth", "login")
    /\ Len(issued) < MaxTokens
    /\ nOps' = nOps + 1
    /\ LET call == [Idle EXCEPT !.op = "login", !.data = payload, !.pre = db]
           id == findOfficerByBadgeNo(db, payload.badgeNo)
           officer == db.policeOfficers[id]
           ok == bcryptCompare(payload.password, OrElse(db.passwordHash[id], Empty))
           extra == loadRolesAndPermissions(db, id)
       IN  IF id = 0 \/ officer.status = "LOCKED" \/ ~ok
           THEN /\ proc' = [proc EXCEPT ![p] = Thrown(call, unauthorized, unauthorized)]
                /\ UNCHANGED issued
           ELSE /\ proc' = [proc EXCEPT ![p] = Returned([call EXCEPT !.id = id])]
                /\ issued' = Append(issued, signToken(tokenPayload(id, officer, extra), now))
    /\ UNCHANGED <<target, db, poolOut>>

\* getCurrentUser: the user object returned is kept in the slot's data field.
getCurrentUser(p, officerId) ==
    /\ Callable(p, "auth", "getCurrentUser")
    /\ nOps' = nOps + 1
    /\ proc[p].pc = "handler" => officerId = proc[p].user.id
    /\ LET call == [Base(p) EXCEPT !.op = "getCurrentUser", !.id = officerId, !.pre = db]
           extra == loadRolesAndPermissions(db, officerId)
       IN  proc' = [proc EXCEPT ![p] =
                IF db.policeOfficers[officerId] = NoRow
                THEN Thrown(call, unauthorized, unauthorized)
                ELSE Returned([call EXCEPT !.data = [id |-> officerId, roles |-> extra.roles,
                                                     permissions |-> extra.permissions]])]
    /\ UNCHANGED <<issued, target, db, poolOut>>

RegisterInputs ==
    { [badgeNo |-> "B-1", name |-> "Wang", password |-> "pw1"],
      [badgeNo |-> "B-1", name |-> "Zhao", password |-> "pw2"],
      [badgeNo |-> "B-2", name |-> "Zhao", password |-> "pw2"],
      [badgeNo |-> "B-2", name |-> "Zhao", password |-> Empty] }

LoginInputs == [badgeNo : {"B-1", "B-2"}, password : {"pw1", "pw2"}]

-----------------------------------------------------------------------------
(* households/service.js *)
MaxHouseholds == 2
HouseholdIds == 1..MaxHouseholds

HouseKey(r) == <<r.communityId, r.buildingNo, r.unitNo, r.roomNo>>

HouseTaken(d, communityId, buildingNo, unitNo, roomNo, excludeId) ==
    \E i \in HouseholdIds :
        /\ i # excludeId
        /\ d.households[i] # NoRow
        /\ HouseKey(d.households[i]) = <<communityId, buildingNo, unitNo, roomNo>>

\* The Conflict ensureHouseUnique throws, or NoErr when it returns.
ensureHouseUnique(d, communityId, buildingNo, unitNo, roomNo, excludeId) ==
    IF Falsy(communityId) \/ Falsy(buildingNo) \/ Falsy(unitNo) \/ Falsy(roomNo) THEN NoErr
    ELSE IF HouseTaken(d, communityId, buildingNo, unitNo, roomNo, excludeId) THEN conflict({})
    ELSE NoErr

\* The error handleHouseholdDbError throws for err.
handleHouseholdDbError(err) ==
    IF err.code = ER_DUP_ENTRY THEN conflict({})
    ELSE IF err.code \in {ER_NO_REFERENCED_ROW_2, "ER_ROW_IS_REFERENCED_2"} THEN validationError({})
    ELSE dbError

\* catch (err) { if (err && err.isAppError) throw err; handleHouseholdDbError(err); }
HouseholdCatch(err) == IF PropIsAppError(err) THEN err ELSE handleHouseholdDbError(err)

HouseholdRowOf(h) ==
    [communityId |-> Get(h, "communityId"),
     address |-> Get(h, "address"),
     buildingNo |-> OrNull(Get(h, "buildingNo")),
     unitNo |-> OrNull(Get(h, "unitNo")),
     roomNo |-> OrNull(Get(h, "roomNo")),
     householderName |-> OrNull(Get(h, "householderName"))]

\* createHousehold: the pre-flight query, then one autocommit INSERT.
createHousehold(p, data, fault) ==
    /\ Callable(p, "households", "createHousehold")
    /\ db.householdAutoInc <= MaxHouseholds
    /\ nOps' = nOps + 1
    /\ LET call == [Base(p) EXCEPT !.op = "createHousehold", !.data = data, !.pre = db]
           dup == ensureHouseUnique(db, Get(data, "communityId"), Get(data, "buildingNo"),
                                    Get(data, "unitNo"), Get(data, "roomNo"), 0)
       IN  IF dup # NoErr
           THEN /\ proc' = [proc EXCEPT ![p] = Thrown(call, HouseholdCatch(dup), dup)]
                /\ UNCHANGED db
           ELSE IF fault # "none"
           THEN /\ proc' = [proc EXCEPT ![p] =
                                Thrown(call, HouseholdCatch(MysqlError(fault)), MysqlError(fault))]
                /\ UNCHANGED db
           ELSE /\ proc' = [proc EXCEPT ![p] = Returned(call)]
                /\ db' = [db EXCEPT !.households[db.householdAutoInc] = HouseholdRowOf(data),
                                    !.householdAutoInc = @ + 1]
    /\ UNCHANGED <<issued, target, poolOut>>

\* updateHousehold: load, merge, pre-flight query excluding the row, one UPDATE.
updateHousehold(p, id, data, fault) ==
    /\ Callable(p, "households", "updateHousehold")
    /\ nOps' = nOps + 1
    /\ LET call == [Base(p) EXCEPT !.op = "updateHousehold", !.id = id, !.data = data, !.pre = db]
           existing == db.households[id]
           merged == Spread(existing, data)
           dup == ensureHouseUnique(db, merged.communityId, merged.buildingNo,
                                    merged.unitNo, merged.roomNo, id)
       IN  IF existing = NoRow
           THEN /\ proc' = [proc EXCEPT ![p] = Thrown(call, HouseholdCatch(notFound), notFound)]
                /\ UNCHANGED db
           ELSE IF dup # NoErr
           THEN /\ proc' = [proc EXCEPT ![p] = Thrown(call, HouseholdCatch(dup), dup)]
                /\ UNCHANGED db
           ELSE IF fault # "none"
           THEN /\ proc' = [proc EXCEPT ![p] =
                                Thrown(call, HouseholdCatch(MysqlError(fault)), MysqlError(fault))]
                /\ UNCHANGED db
           ELSE /\ proc' = [proc EXCEPT ![p] = Returned(call)]
                /\ db' = [db EXCEPT !.households[id] = HouseholdRowOf(merged)]
    /\ UNCHANGED <<issued, target, poolOut>>

HouseholdCreateInputs ==
    { [communityId |-> "1", address |-> "Road 1", buildingNo |-> b, unitNo |-> "1", roomNo |-> r] :
        b \in {"1", "2"}, r \in {"101", "102"} }
    \cup { [communityId |-> "1", address |-> "Road 1"],
           [communityId |-> "1", address |-> "Road 1", buildingNo |-> "1", unitNo |-> Empty,
            roomNo |-> "101"] }

HouseholdUpdateInputs ==
    { [roomNo |-> "101"], [roomNo |-> "102"], [buildingNo |-> "1", roomNo |-> "101"],
      [buildingNo |-> "2"], [householderName |-> "Chen"], [unitNo |-> Null],
      [address |-> "Road 2", householderName |-> Null] }

-----------------------------------------------------------------------------
(* nineSmall/service.js: createPlace, updatePlace *)
MaxPlaces == 2
PlaceIds == 1..MaxPlaces

\* a ?? b
Nullish(a, b) == IF a \in {Undefined, Null} THEN b ELSE a

handlePlaceDbError(err) ==
    IF err.code = ER_DUP_ENTRY THEN conflict({})
    ELSE IF err.code \in {ER_NO_REFERENCED_ROW_2, "ER_ROW_IS_REFERENCED_2"} THEN validationError({})
    ELSE dbError

\* The column values createPlace binds to its INSERT.
NewPlaceRow(data) ==
    [name |-> Get(data, "name"),
     address |-> Get(data, "address"),
     communityId |-> Nullish(Get(data, "communityId"), Null),
     type |-> Nullish(Get(data, "type"), Null),
     typeItemId |-> Nullish(Get(data, "typeItemId"), Null),
     gridName |-> Nullish(Get(data, "gridName"), Null),
     principalName |-> Nullish(Get(data, "principalName"), Null),
     contactPhone |-> Nullish(Get(data, "contactPhone"), Null),
     remark |-> Nullish(Get(data, "remark"), Null)]

\* The column values updatePlace binds to its UPDATE: merged, then ?? null.
\* (Variant first: every key by presence, as communityId and typeItemId are.)
MergedPlaceRowByPresence(existing, data) ==
    [k \in DOMAIN existing |-> IF Has(data, k) THEN data[k] ELSE existing[k]]
MergedPlaceRow(existing, data) ==
    LET merged ==
            [name |-> Nullish(Get(data, "name"), existing.name),
             address |-> Nullish(Get(data, "address"), existing.address),
             communityId |-> IF Get(data, "communityId") # Undefined THEN data.communityId
                             ELSE existing.communityId,
             type |-> Nullish(Get(data, "type"), existing.type),
             typeItemId |-> IF Get(data, "typeItemId") # Undefined THEN data.typeItemId
                            ELSE existing.typeItemId,
             gridName |-> Nullish(Get(data, "gridName"), existing.gridName),
             principalName |-> Nullish(Get(data, "principalName"), existing.principalName),
             contactPhone |-> Nullish(Get(data, "contactPhone"), existing.contactPhone),
             remark |-> Nullish(Get(data, "remark"), existing.remark)]
    IN  [k \in DOMAIN merged |->
            IF k \in {"name", "address"} THEN merged[k] ELSE Nullish(merged[k], Null)]

createPlace(p, data, fault) ==
    /\ Callable(p, "places", "createPlace")
    /\ db.placeAutoInc <= MaxPlaces
    /\ nOps' = nOps + 1
    /\ LET call == [Base(p) EXCEPT !.op = "createPlace", !.data = data, !.pre = db]
           id == db.placeAutoInc
           err == MysqlError(fault)
       IN  IF fault # "none"
           THEN /\ proc' = [proc EXCEPT ![p] = Thrown(call, handlePlaceDbError(err), err)]
                /\ UNCHANGED db
           ELSE /\ proc' = [proc EXCEPT ![p] = Returned([call EXCEPT !.id = id])]
                /\ db' = [db EXCEPT !.places[id] = NewPlaceRow(data), !.placeAutoInc = @ + 1]
    /\ UNCHANGED <<issued, target, poolOut>>

\* updatePlace: the load (outside the try block), the merge, the UPDATE.
updatePlace(p, id, data, fault) ==
    /\ Callable(p, "places", "updatePlace")
    /\ nOps' = nOps + 1
    /\ LET call == [Base(p) EXCEPT !.op = "updatePlace", !.id = id, !.data = data, !.pre = db]
           lost == MysqlError(PROTOCOL_CONNECTION_LOST)
           err == MysqlError(fault)
           existing == db.places[id]
       IN  IF fault = "load"
           THEN /\ proc' = [proc EXCEPT ![p] = Thrown(call, lost, lost)]
                /\ UNCHANGED db
           ELSE IF existing = NoRow
           THEN /\ proc' = [proc EXCEPT ![p] = Thrown(call, notFound, notFound)]
                /\ UNCHANGED db
           ELSE IF fault # "none"
           THEN /\ proc' = [proc EXCEPT ![p] = Thrown(call, handlePlaceDbError(err), err)]
                /\ UNCHANGED db
           ELSE /\ proc' = [proc EXCEPT ![p] = Returned(call)]
                /\ db' = [db EXCEPT !.places[id] = MergedPlaceRow(existing, data)]
    /\ UNCHANGED <<issued, target, poolOut>>

\* Bodies createPlaceSchema and updatePlaceSchema let through.
PlaceCreateInputs ==
    { [name |-> "Shop", address |-> "Road 1"],
      [name |-> "Shop", address |-> "Road 1", communityId |-> "7", gridName |-> "G1",
       remark |-> "old"] }

PlaceUpdateInputs ==
    { [remark |-> Null], [remark |-> "new"], [gridName |-> Empty], [communityId |-> Null],
      [typeItemId |-> "3"], [name |-> "Bar"], [type |-> Null, contactPhone |-> "555"] }

-----------------------------------------------------------------------------
(* communities/service.js *)
\* The value the service binds to `pool`: require('../../config/db') without
\* destructuring, the exports object of config/db.js.
\* (Variant first: the pool itself, as the services that destructure get it.)
communitiesPoolDestructured == [query |-> "function", getConnection |-> "function"]
communitiesPool == [pool |-> "Pool", withTransaction |-> "function"]

CommunityNames == {"East", "West"}

\* createCommunity: the duplicate check, then the INSERT with its catch block.
createCommunity(p, data, fault) ==
    /\ Callable(p, "communities", "createCommunity")
    /\ nOps' = nOps + 1
    /\ LET call == [Base(p) EXCEPT !.op = "createCommunity", !.data = data, !.pre = db]
           lost == MysqlError(PROTOCOL_CONNECTION_LOST)
           named == newAppError(ObjectArgument)
           taken == data.communityName \in db.communities
       IN  IF ~Has(communitiesPool, "query")
           THEN /\ proc' = [proc EXCEPT ![p] = Thrown(call, TypeError, TypeError)]
                /\ UNCHANGED db
           ELSE IF fault = "load"
           THEN /\ proc' = [proc EXCEPT ![p] = Thrown(call, lost, lost)]
                /\ UNCHANGED db
           ELSE IF taken
           THEN /\ proc' = [proc EXCEPT ![p] = Thrown(call, named, named)]
                /\ UNCHANGED db
           ELSE IF fault = ER_DUP_ENTRY
           THEN /\ proc' = [proc EXCEPT ![p] = Thrown(call, named, MysqlError(ER_DUP_ENTRY))]
                /\ UNCHANGED db
           ELSE IF fault # "none"
           THEN /\ proc' = [proc EXCEPT ![p] = Thrown(call, MysqlError(fault), MysqlError(fault))]
                /\ UNCHANGED db
           ELSE /\ proc' = [proc EXCEPT ![p] = Returned(call)]
                /\ db' = [db EXCEPT !.communities = @ \cup {data.communityName}]
    /\ UNCHANGED <<issued, target, poolOut>>

-----------------------------------------------------------------------------
(* config/jwt.js, middleware/auth.js, middleware/permission.js and the       *)
(* routers.  A request header is the sequence of its space-separated fields *)
(* (header.split(' ')); an absent or empty header is the empty sequence.    *)
JWT_SECRET == "dev-secret-change-this-in-production"
JWT_EXPIRES_IN == 7        \* '7d', in days; the clock of the model counts days

UManager == [id |-> 4, permissions |-> {"community:manage"}]
UPlain == [id |-> 5, permissions |-> {}]
UBare == [id |-> 6]        \* claims without a permissions array

\* The strings of the tokens signToken has returned, in the order of issue.
IssuedNames == {"jwt.issued.1", "jwt.issued.2"}
IssuedIndex(token) == IF token = "jwt.issued.1" THEN 1 ELSE 2

\* What a token string decodes to: whether it parses as a JWT, the key its
\* signature was made with, its issue day and its payload.
Jwt(token) ==
    CASE token = "jwt.u1.d0" -> [parses |-> TRUE, key |-> JWT_SECRET, iat |-> 0, payload |-> U1]
      [] token = "jwt.u1.d1" -> [parses |-> TRUE, key |-> JWT_SECRET, iat |-> 1, payload |-> U1]
      [] token = "jwt.admin.d1" -> [parses |-> TRUE, key |-> JWT_SECRET, iat |-> 1, payload |-> UAdmin]
      [] token = "jwt.manager.d0" -> [parses |-> TRUE, key |-> JWT_SECRET, iat |-> 0, payload |-> UManager]
      [] token = "jwt.manager.d1" -> [parses |-> TRUE, key |-> JWT_SECRET, iat |-> 1, payload |-> UManager]
      [] token = "jwt.plain.d1" -> [parses |-> TRUE, key |-> JWT_SECRET, iat |-> 1, payload |-> UPlain]
      [] token = "jwt.bare.d1" -> [parses |-> TRUE, key |-> JWT_SECRET, iat |-> 1, payload |-> UBare]
      [] token = "jwt.admin.forged" -> [parses |-> TRUE, key |-> "other-secret", iat |-> 1, payload |-> UAdmin]
      [] token \in IssuedNames /\ IssuedIndex(token) <= Len(issued) ->
            [parses |-> TRUE, key |-> JWT_SECRET, iat |-> issued[IssuedIndex(token)].iat,
             payload |-> issued[IssuedIndex(token)].payload]
      [] OTHER -> [parses |-> FALSE, key |-> Empty, iat |-> 0, payload |-> NoUser]

Tokens == {"jwt.u1.d0", "jwt.u1.d1", "jwt.admin.d1", "jwt.manager.d0", "jwt.manager.d1",
           "jwt.plain.d1", "jwt.bare.d1", "jwt.admin.forged", "not-a-jwt"}

\* signToken stamps exp = iat + expiresIn into the payload.
TokenExp(token) == Jwt(token).iat + JWT_EXPIRES_IN

\* jwt.verify(token, JWT_SECRET): the payload, or NoUser when it throws
\* (malformed token, signature made with another key, exp reached).
\* (Variant first: a verification that does not look at exp.)
verifyTokenIgnoringExp(token, now) ==
    LET t == Jwt(token)
    IN  IF ~t.parses \/ t.key # JWT_SECRET THEN [threw |-> TRUE, payload |-> NoUser]
        ELSE [threw |-> FALSE, payload |-> t.payload]
verifyToken(token, now) ==
    LET t == Jwt(token)
    IN  IF ~t.parses THEN [threw |-> TRUE, payload |-> NoUser]
        ELSE IF t.key # JWT_SECRET THEN [threw |-> TRUE, payload |-> NoUser]
        ELSE IF now >= TokenExp(token) THEN [threw |-> TRUE, payload |-> NoUser]
        ELSE [threw |-> FALSE, payload |-> t.payload]

\* /^Bearer$/i.test(scheme)
IsBearer(scheme) == scheme \in {"Bearer", "bearer", "BEARER"}

\* extractToken(req): the token, or Null
extractToken(req) ==
    IF req.header = <<>> THEN Null
    ELSE IF Len(req.header) # 2 THEN Null
    ELSE IF ~IsBearer(req.header[1]) THEN Null
    ELSE req.header[2]

\* auth(required): the error handed to next() (NoErr for a plain next()) and
\* the value of req.user afterwards.  NoUser stands for the absent req.user.
auth(required, req) ==
    LET token == extractToken(req)
        v == verifyToken(token, req.now)
    IN  IF Falsy(token)
        THEN (IF ~required THEN [err |-> NoErr, user |-> NoUser]
              ELSE [err |-> unauthorized, user |-> NoUser])
        ELSE IF v.threw THEN [err |-> unauthorized, user |-> NoUser]
        ELSE [err |-> NoErr, user |-> v.payload]

\* Array.isArray(req.user.permissions) ? req.user.permissions : []
userPermissions(user) == IF Has(user, "permissions") THEN user.permissions ELSE {}

\* permission(requiredPermissions): the error handed to next(), NoErr for a
\* plain next().  requiredPermissions is the list after the array wrapping.
\* (Variants first: a gate that looks the officer's permissions up in the
\* store, and a gate that asks for every required code.)
permissionFromStore(requiredPermissions, user) ==
    IF user = NoUser THEN unauthorized
    ELSE IF Len(requiredPermissions) > 0
            /\ ~(\E i \in 1..Len(requiredPermissions) :
                    requiredPermissions[i] \in loadRolesAndPermissions(db, user.id).permissions)
    THEN forbidden
    ELSE NoErr
permissionAllOf(requiredPermissions, user) ==
    IF user = NoUser THEN unauthorized
    ELSE IF Len(requiredPermissions) > 0
            /\ ~(\A i \in 1..Len(requiredPermissions) :
                    requiredPermissions[i] \in userPermissions(user))
    THEN forbidden
    ELSE NoErr
permission(requiredPermissions, user) ==
    IF user = NoUser THEN unauthorized
    ELSE IF Len(requiredPermissions) > 0
            /\ ~(\E i \in 1..Len(requiredPermissions) :
                    requiredPermissions[i] \in userPermissions(user))
    THEN forbidden
    ELSE NoErr

\* permissionMiddleware(requiredPermissions, mode): permission declares one
\* parameter, so a second argument ('any' in the keypop router) is dropped.
permissionMiddleware(requiredPermissions, mode, user) == permission(requiredPermissions, user)

\* The routes of the model: the middleware chain in front of a handler.
\* The routers of the repository mount the required auth; the last entry
\* mounts auth.optional, which auth.js exports, in front of the same gate;
\* the one after it hands the gate the mode 'all' where keypop hands 'any'.
Routes ==
    { [path |-> "GET /cases/:id", auth |-> "required", mode |-> "any",
       required |-> <<"case:view_my", "case:view_all">>, op |-> "getCaseDetail"],
      [path |-> "POST /households", auth |-> "required", mode |-> "any",
       required |-> <<"community:manage">>, op |-> "createHousehold"],
      [path |-> "PUT /households/:id", auth |-> "required", mode |-> "any",
       required |-> <<"community:manage">>, op |-> "updateHousehold"],
      [path |-> "POST /households (optional auth)", auth |-> "optional", mode |-> "any",
       required |-> <<"community:manage">>, op |-> "createHousehold"],
      [path |-> "GET /cases", auth |-> "required", mode |-> "any",
       required |-> <<"case:view_my", "case:view_all">>, op |-> "listCases"],
      [path |-> "GET /cases/:id (all of)", auth |-> "required", mode |-> "all",
       required |-> <<"case:view_my", "case:view_all">>, op |-> "getCaseDetail"] }

Headers ==
    { <<>>, <<"Bearer">>, <<"Bearer", Empty>>, <<"Bearer", "jwt.manager.d1", "x">>,
      <<"Basic", "jwt.manager.d1">>, <<"bearer", "jwt.manager.d1">> }
    \cup { <<"Bearer", t>> : t \in Tokens }

Nows == {6, 7}

Requests == [header : Headers, route : Routes, now : Nows]

\* The routes in front of the officers and auth handlers; /auth/me mounts no
\* permission gate (an empty required list).
AuthRoutes ==
    { [path |-> "DELETE /officers/:id", auth |-> "required", mode |-> "any",
       required |-> <<"user:manage">>, op |-> "deleteOfficer"],
      [path |-> "PUT /households/:id", auth |-> "required", mode |-> "any",
       required |-> <<"community:manage">>, op |-> "updateHousehold"],
      [path |-> "GET /auth/me", auth |-> "required", mode |-> "any",
       required |-> <<>>, op |-> "getCurrentUser"] }

AuthNows == {7, 8}

AuthRequests == [header : { <<"Bearer", t>> : t \in IssuedNames }, route : AuthRoutes, now : AuthNows]

\* One request through the middleware in front of its handler: auth, then
\* the permission gate, each ending the request through the error handler
\* when it hands an error to next().
HttpRequest(p, req) ==
    /\ target \in {"gate", "auth"}
    /\ CanCall(p)
    /\ nOps' = nOps + 1
    /\ LET call == [Idle EXCEPT !.op = req.route.op, !.req = req, !.pre = db]
           a == auth(req.route.auth = "required", req)
           g == permissionMiddleware(req.route.required, req.route.mode, a.user)
       IN  proc' = [proc EXCEPT ![p] =
                IF a.err # NoErr
                THEN Thrown([call EXCEPT !.ran = {"auth"}], a.err, a.err)
                ELSE IF req.route.required = <<>> /\ req.route.path = "GET /auth/me"
                THEN [call EXCEPT !.ran = {"auth"}, !.user = a.user, !.pc = "handler"]
                ELSE IF g # NoErr
                THEN Thrown([call EXCEPT !.ran = {"auth", "permission"}, !.user = a.user], g, g)
                ELSE [call EXCEPT !.ran = {"auth", "permission"}, !.user = a.user,
                                  !.pc = "handler"]]
    /\ UNCHANGED <<issued, target, db, poolOut>>

-----------------------------------------------------------------------------
InitDb ==
    [caseRecords |-> [i \in CaseIds |-> NoRow],
     caseOfficers |-> [i \in CaseIds |-> <<>>],
     casePersons |-> [i \in CaseIds |-> <<>>],
     caseAutoInc |-> 1,
     policeOfficers |-> [i \in OfficerIds |-> NoRow],
     officerRoles |-> [i \in OfficerIds |-> {}],
     officerAutoInc |-> 1,
     passwordHash |-> [i \in OfficerIds |-> Null],
     roles |-> Roles,
     rolePermissions |-> RolePermissions,
     communities |-> {},
     places |-> [i \in PlaceIds |-> NoRow],
     placeAutoInc |-> 1,
     households |-> [i \in HouseholdIds |-> NoRow],
     householdAutoInc |-> 1]

InitCommon ==
    /\ db = InitDb
    /\ poolOut = 0
    /\ proc = [p \in Procs |-> Idle]
    /\ nOps = 0
    /\ issued = <<>>

InitCases == InitCommon /\ target = "cases"
InitOfficers == InitCommon /\ target = "officers"
InitHouseholds == InitCommon /\ target = "households"
InitGate == InitCommon /\ target = "gate"
Init == InitCommon /\ target \in {"cases", "officers", "households", "gate"}

NextCases ==
    \/ \E p \in SeqProcs, data \in CreateInputs, f \in {"none", "preflight", "begin"} :
          createCase(p, data, U1, f)
    \/ \E p \in SeqProcs, id \in CaseIds, c \in UpdateCalls, f \in PreFaults :
          updateCase(p, id, c[1], c[2], f)
    \/ \E p \in SeqProcs, id \in CaseIds, u \in CaseUsers, f \in {"none", "load", "begin"} :
          deleteCase(p, id, u, f)
    \/ \E p \in SeqProcs, id \in CaseIds, u \in CaseUsers, f \in {"none", "load"} :
          getCaseDetail(p, id, u, f)
    \/ \E p \in SeqProcs, q \in ListQueries, u \in CaseUsers, f \in {"none", "load"} :
          listCases(p, q, u, f)
    \/ \E p \in SeqProcs, f \in StmtFaults \cup {"none"} : CaseTxStmt(p, f)
    \/ \E p \in SeqProcs, f \in {"none", PROTOCOL_CONNECTION_LOST} : CaseTxCommit(p, f)

NextOfficers ==
    \/ \E p \in SeqProcs, payload \in OfficerInputs, f \in OfficerPreFaults \ {"load"}, rb \in BOOLEAN :
          createOfficer(p, payload, f, rb)
    \/ \E p \in SeqProcs, id \in OfficerIds, payload \in OfficerInputs, f \in OfficerPreFaults,
          rb \in BOOLEAN : updateOfficer(p, id, payload, f, rb)
    \/ \E p \in SeqProcs, id \in OfficerIds, f \in {"none", "load", "write"} : deleteOfficer(p, id, f)
    \/ \E p \in SeqProcs, f \in StmtFaults \cup {"none"}, rb \in BOOLEAN : OfficerTxStmt(p, f, rb)
    \/ \E p \in SeqProcs, f \in {"none", "commit", "post"}, rb \in BOOLEAN : OfficerTxCommit(p, f, rb)

NextHouseholds ==
    \/ \E p \in SeqProcs, data \in HouseholdCreateInputs, f \in StmtFaults \cup {"none"} :
          createHousehold(p, data, f)
    \/ \E p \in SeqProcs, id \in HouseholdIds, data \in HouseholdUpdateInputs,
          f \in StmtFaults \cup {"none"} : updateHousehold(p, id, data, f)

NextGate ==
    \/ \E p \in SeqProcs, req \in Requests : HttpRequest(p, req)
    \/ \E p \in SeqProcs, id \in CaseIds, f \in {"none", "load"} :
          getCaseDetail(p, id, proc[p].user, f)
    \/ \E p \in SeqProcs, q \in ListQueries, f \in {"none", "load"} :
          listCases(p, q, proc[p].user, f)
    \/ \E p \in SeqProcs, data \in HouseholdCreateInputs, f \in StmtFaults \cup {"none"} :
          createHousehold(p, data, f)
    \/ \E p \in SeqProcs, id \in HouseholdIds, data \in HouseholdUpdateInputs,
          f \in StmtFaults \cup {"none"} : updateHousehold(p, id, data, f)

\* Two requests in flight at once, the storage working: the interleavings of
\* createCase, createOfficer and register around their uniqueness checks.
RaceCaseInputs ==
    { Spread(CreateBase("C-001", 1), [officers |-> <<[officerId |-> 1]>>, persons |-> <<P1>>]),
      Spread(CreateBase("C-001", 2),
             [officers |-> <<[officerId |-> 1, role |-> XIEBAN]>>, persons |-> <<P2>>]),
      Spread(CreateBase("C-002", 2), [officers |-> <<>>, persons |-> <<>>]) }

RaceOfficerInputs ==
    { [name |-> "Wang", badgeNo |-> "B-1", roleIds |-> <<1>>],
      [name |-> "Zhao", badgeNo |-> "B-1", roleIds |-> <<1, 2>>],
      [name |-> "Zhao", badgeNo |-> "B-2", roleIds |-> <<>>] }

InitRace == InitCommon /\ target = "race"

NextRace ==
    \/ \E p \in Procs, data \in RaceCaseInputs : createCase(p, data, U1, "none")
    \/ \E p \in Procs : CaseTxStmt(p, "none")
    \/ \E p \in Procs : CaseTxCommit(p, "none")
    \/ \E p \in Procs, payload \in RaceOfficerInputs : createOfficer(p, payload, "none", FALSE)
    \/ \E p \in Procs : OfficerTxStmt(p, "none", FALSE)
    \/ \E p \in Procs : OfficerTxCommit(p, "none", FALSE)
    \/ \E p \in Procs, payload \in RegisterInputs : register(p, payload, "none")
    \/ \E p \in Procs, now \in IssueDays : RegisterInsert(p, "none", now)

\* Accounts, roles and tokens: register, the officer writes, login, and
\* requests carrying the tokens issued.
AuthOfficerInputs ==
    { [name |-> "Wang", badgeNo |-> "B-1", roleIds |-> <<1>>],
      [name |-> "Wang", badgeNo |-> "B-1", roleIds |-> <<1, 2>>],
      [name |-> "Wang", badgeNo |-> "B-1", roleIds |-> <<>>],
      [name |-> "Wang", badgeNo |-> "B-1", status |-> "LOCKED"],
      [name |-> "Wang", badgeNo |-> "B-1", status |-> "ACTIVE"] }

InitAuth == InitCommon /\ target = "auth"

NextAuth ==
    \/ \E p \in SeqProcs, payload \in RegisterInputs, f \in {"none", "load"} :
          register(p, payload, f)
    \/ \E p \in SeqProcs, f \in {"none", PROTOCOL_CONNECTION_LOST}, now \in IssueDays :
          RegisterInsert(p, f, now)
    \/ \E p \in SeqProcs, payload \in LoginInputs, now \in IssueDays : login(p, payload, now)
    \/ \E p \in SeqProcs, id \in OfficerIds : getCurrentUser(p, id)
    \/ \E p \in SeqProcs, id \in OfficerIds, payload \in AuthOfficerInputs :
          updateOfficer(p, id, payload, "none", FALSE)
    \/ \E p \in SeqProcs : OfficerTxStmt(p, "none", FALSE)
    \/ \E p \in SeqProcs : OfficerTxCommit(p, "none", FALSE)
    \/ \E p \in SeqProcs, id \in OfficerIds : deleteOfficer(p, id, "none")
    \/ \E p \in SeqProcs, req \in AuthRequests : HttpRequest(p, req)
    \/ \E p \in SeqProcs, id \in HouseholdIds, data \in HouseholdUpdateInputs :
          proc[p].pc = "handler" /\ updateHousehold(p, id, data, "none")

\* The communities endpoints.
InitCommunities == InitCommon /\ target = "communities"

NextCommunities ==
    \E p \in SeqProcs, name \in CommunityNames, f \in StmtFaults \cup {ER_DUP_ENTRY, "none", "load"} :
        createCommunity(p, [communityName |-> name], f)

\* A creation in the first slot, reads in the second.
RoundTripInputs ==
    CreateInputs
    \cup { Spread(CreateBase("C-002", 2),
                  [officers |-> <<[officerId |-> 1, role |-> Empty], [officerId |-> 2, role |-> ZHUBAN]>>,
                   persons |-> <<P2, P1>>, transferTarget |-> Empty]) }

InitRoundTrip == InitCommon /\ target = "roundtrip"

NextRoundTrip ==
    \/ \E data \in RoundTripInputs : createCase(1, data, U1, "none")
    \/ CaseTxStmt(1, "none")
    \/ CaseTxCommit(1, "none")
    \/ \E id \in CaseIds, u \in CaseUsers : getCaseDetail(2, id, u, "none")

\* One case is created, then two requests at once update it.
WritersCreateInputs ==
    { Spread(CreateBase("C-001", 1), [officers |-> <<[officerId |-> 1]>>, persons |-> <<P1>>]),
      Spread(CreateBase("C-001", 1),
             [officers |-> <<>>, persons |-> <<>>, status |-> YIJIE, closedDate |-> "2024-01-03",
              resultItemId |-> "5"]) }

WritersUpdateCalls ==
    { <<[status |-> YIJIAO, transferTarget |-> "PCS-2", transferDate |-> "2024-01-03",
         officers |-> <<[officerId |-> 2, role |-> XIEBAN]>>], U1>>,
      <<[deadlineDate |-> "2024-01-03", officers |-> <<[officerId |-> 1], [officerId |-> 2]>>,
         persons |-> <<P2>>], UAdmin>>,
      <<[mainOfficerId |-> 2, officers |-> <<>>], U1>>,
      <<[caseNo |-> "C-002"], U1>>,
      <<[status |-> CUNDANG], U1>>,
      <<[archiveLocation |-> "A-1", archiveDate |-> "2024-01-03"], UAdmin>>,
      <<[resultItemId |-> Null], U1>>,
      <<[status |-> ZAIBAN], U1>> }

InitWriters == InitCommon /\ target = "writers"

NextWriters ==
    \/ \E data \in WritersCreateInputs : nOps = 0 /\ createCase(1, data, U1, "none")
    \/ \E p \in Procs, c \in WritersUpdateCalls :
          db.caseRecords[1] # NoRow /\ updateCase(p, 1, c[1], c[2], "none")
    \/ \E p \in Procs : CaseTxStmt(p, "none")
    \/ \E p \in Procs : CaseTxCommit(p, "none")

\* The nine-small places endpoints.
InitPlaces == InitCommon /\ target = "places"

NextPlaces ==
    \/ \E p \in SeqProcs, data \in PlaceCreateInputs, f \in StmtFaults \cup {ER_DUP_ENTRY, "none"} :
          createPlace(p, data, f)
    \/ \E p \in SeqProcs, id \in PlaceIds, data \in PlaceUpdateInputs,
          f \in StmtFaults \cup {ER_DUP_ENTRY, "none", "load"} : updatePlace(p, id, data, f)

Next == NextCases \/ NextOfficers \/ NextHouseholds \/ NextGate

\* Every module of the model at once.
InitAll ==
    InitCommon /\ target \in {"cases", "officers", "households", "gate", "race", "auth", "communities", "places", "roundtrip", "writers"}
NextAll ==
    \/ target \in {"cases", "officers", "households", "gate"} /\ Next
    \/ target = "race" /\ NextRace
    \/ target = "auth" /\ NextAuth
    \/ target = "communities" /\ NextCommunities
    \/ target = "places" /\ NextPlaces
    \/ target = "roundtrip" /\ NextRoundTrip
    \/ target = "writers" /\ NextWriters

SpecCases == InitCases /\ [][NextCases]_vars
SpecOfficers == InitOfficers /\ [][NextOfficers]_vars
SpecHouseholds == InitHouseholds /\ [][NextHouseholds]_vars
SpecGate == InitGate /\ [][NextGate]_vars
SpecRace == InitRace /\ [][NextRace]_vars
SpecAuth == InitAuth /\ [][NextAuth]_vars
SpecRoundTrip == InitRoundTrip /\ [][NextRoundTrip]_vars
SpecPlaces == InitPlaces /\ [][NextPlaces]_vars
SpecWriters == InitWriters /\ [][NextWriters]_vars
SpecAll == InitAll /\ [][NextAll]_vars
Spec == Init /\ [][Next]_vars

-----------------------------------------------------------------------------
(* Properties.  The stored aggregates of a store, without the counters.     *)
StoredCases(d) == <<d.caseRecords, d.caseOfficers, d.casePersons>>
StoredOfficers(d) == <<d.policeOfficers, d.officerRoles>>
Finished(c) == c.pc = "done"
Succeeded(c) == c.pc = "done" /\ c.res.kind = "OK"
Failed(c) == c.pc = "done" /\ c.res.kind # "OK"

\* The aggregate a cases call works on: the row it loaded, the id it got.
CaseIdOf(c) == IF c.op = "createCase" THEN c.pre.caseAutoInc ELSE c.id
\* The record the business rules of a call judge.
JudgedRecord(c) ==
    IF c.op = "createCase" THEN c.data ELSE Spread(c.pre.caseRecords[c.id], c.data)
Missing(r, k) == Get(r, k) \in {Undefined, Null, Empty}
StatusOf(r) == IF Missing(r, "status") THEN ZAIBAN ELSE r.status
\* The fields the status of r requires and r does not hold.
MissingGated(r) ==
    LET need == CASE StatusOf(r) = YIJIE -> {"closedDate", "resultItemId"}
                  [] StatusOf(r) = YIJIAO -> {"transferTarget", "transferDate"}
                  [] StatusOf(r) = CUNDANG -> {"archiveLocation", "archiveDate"}
                  [] OTHER -> {}
    IN  {k \in need : Missing(r, k)}
GatedFields == {"closedDate", "resultItemId", "transferTarget", "transferDate",
                "archiveLocation", "archiveDate"}
DeadlineBeforeReceived(r) ==
    /\ ~Missing(r, "deadlineDate") /\ ~Missing(r, "receivedDate")
    /\ DateRank(r.deadlineDate) < DateRank(r.receivedDate)
\* The call was turned down by a status-gated rule.
RejectedByStatusRule(c) ==
    /\ Finished(c)
    /\ c.res.raised = "VALIDATION_ERROR"
    /\ c.res.raisedFields \cap GatedFields # {}
\* The call got past the business rules: its transaction was opened.
PassedRules(c) == c.pc = "txn" \/ Succeeded(c) \/ c.nStmts > 0

\* C3: createCase and updateCase are atomic.  While a transaction is open and
\* after a call that failed, the stored rows, officers and persons are those
\* the call found; after a call that succeeded, the parent is stored with
\* every supplied officer and exactly the supplied persons.
C3_Atomic ==
    \A p \in Procs :
        LET c == proc[p]
            id == CaseIdOf(c)
        IN  c.op \in {"createCase", "updateCase"} =>
              /\ (c.pc = "txn" \/ Failed(c)) => StoredCases(db) = StoredCases(c.pre)
              /\ Succeeded(c) =>
                    /\ db.caseRecords[id] # NoRow
                    /\ Has(c.data, "officers") =>
                          \A i \in 1..Len(c.data.officers) :
                              \E j \in 1..Len(db.caseOfficers[id]) :
                                  db.caseOfficers[id][j].officerId = c.data.officers[i].officerId
                    /\ Has(c.data, "persons") =>
                          /\ Len(db.casePersons[id]) = Len(c.data.persons)
                          /\ \A i \in 1..Len(c.data.persons) :
                                db.casePersons[id][i].name = c.data.persons[i].name

\* An updateCase whose child insert failed after the parent update and the
\* child delete had run, on a case that had children.
C3_Witness ==
    \E p \in Procs :
        /\ proc[p].op = "updateCase"
        /\ Failed(proc[p])
        /\ proc[p].nStmts >= 2
        /\ proc[p].res.raised = "STORAGE"
        /\ Len(proc[p].pre.caseOfficers[proc[p].id]) > 0

\* C5: every stored case's main officer has a row among the case's officers.
C5_OwnerIsParticipant ==
    \A id \in CaseIds :
        db.caseRecords[id] # NoRow =>
            \E i \in 1..Len(db.caseOfficers[id]) :
                db.caseOfficers[id][i].officerId = db.caseRecords[id].mainOfficerId

\* C6: updateCase judges the status-gated requirements on the stored row
\* overridden by the patch.  A patch without status and without gated fields
\* on a stored case that meets the requirements is not turned down by them;
\* a patch with a status is turned down by them only if the merged record
\* lacks a field its status requires, and gets past them only if it lacks none.
C6_MergedRecordJudged ==
    \A p \in Procs :
        LET c == proc[p]
            existing == c.pre.caseRecords[c.id]
            merged == JudgedRecord(c)
        IN  (c.op = "updateCase" /\ existing # NoRow) =>
              /\ (~Has(c.data, "status") /\ DOMAIN c.data \cap GatedFields = {}
                  /\ MissingGated(existing) = {}) => ~RejectedByStatusRule(c)
              /\ Has(c.data, "status") =>
                    /\ RejectedByStatusRule(c) => MissingGated(merged) # {}
                    /\ RejectedByStatusRule(c) => c.res.raisedFields = MissingGated(merged)
                    /\ PassedRules(c) => MissingGated(merged) = {}

\* A patch holding only a status got past the rules because the stored row
\* already held the fields that status requires.
C6_Witness ==
    \E p \in Procs :
        /\ proc[p].op = "updateCase"
        /\ DOMAIN proc[p].data = {"status"}
        /\ proc[p].data.status = CUNDANG
        /\ PassedRules(proc[p])

\* C7: a createCase or updateCase whose judged record is closed with neither
\* closedDate nor resultItemId, and which no earlier check or storage error
\* stopped, fails with VALIDATION_ERROR, 400, naming both fields, and leaves
\* the stored cases as they were.
C7_ClosedNeedsBoth ==
    \A p \in Procs :
        LET c == proc[p]
            r == JudgedRecord(c)
        IN  (/\ c.op \in {"createCase", "updateCase"}
             /\ c.op = "updateCase" => c.pre.caseRecords[c.id] # NoRow
             /\ StatusOf(r) = YIJIE
             /\ Missing(r, "closedDate") /\ Missing(r, "resultItemId")
             /\ ~DeadlineBeforeReceived(r)
             /\ c.res.raised \notin {"NOT_FOUND", "FORBIDDEN", "CONFLICT", "STORAGE"})
            => /\ Finished(c)
               /\ c.res.kind = "VALIDATION_ERROR"
               /\ c.res.status = 400
               /\ {"closedDate", "resultItemId"} \subseteq c.res.fields
               /\ StoredCases(db) = StoredCases(c.pre)

\* C8: for a caller without case:view_all, updateCase and deleteCase on a
\* stored case whose main officer is someone else fail with FORBIDDEN, 403 and
\* change nothing, and getCaseDetail on such a case fails with FORBIDDEN; on a
\* case whose main officer is the caller none of the three is refused for
\* ownership.
C8_OwnershipEnforced ==
    \A p \in Procs :
        LET c == proc[p]
            row == c.pre.caseRecords[c.id]
        IN  (/\ c.op \in {"updateCase", "deleteCase", "getCaseDetail"}
             /\ Finished(c)
             /\ row # NoRow
             /\ "case:view_all" \notin c.user.permissions
             /\ c.res.raised # "STORAGE")
            => IF row.mainOfficerId # c.user.id
               THEN /\ c.res.kind = "FORBIDDEN"
                    /\ c.res.status = 403
                    /\ StoredCases(db) = StoredCases(c.pre)
               ELSE c.res.raised # "FORBIDDEN"

\* C9: a typed error raised inside createCase, updateCase, deleteCase,
\* createHousehold or updateHousehold leaves the call with the kind and the
\* status it was raised with.
C9_TypedErrorsPropagate ==
    \A p \in Procs :
        LET c == proc[p]
        IN  (/\ c.op \in {"createCase", "updateCase", "deleteCase",
                          "createHousehold", "updateHousehold"}
             /\ Finished(c)
             /\ c.res.raised \in ERROR_CODES)
            => /\ c.res.kind = c.res.raised
               /\ c.res.status = DEFAULT_STATUS_BY_CODE[c.res.raised]

\* The rows a supplied officers list is stored as, in order.
SuppliedOfficerRows(list) ==
    [i \in 1..Len(list) |->
        [officerId |-> list[i].officerId,
         role |-> IF Missing(list[i], "role") THEN Null ELSE list[i].role]]
SuppliedPersonRows(list) ==
    [i \in 1..Len(list) |-> [name |-> list[i].name, roleItemId |-> list[i].roleItemId]]
NamesOfficer(list, officerId) == \E i \in 1..Len(list) : list[i].officerId = officerId
SeqRange(q) == {q[i] : i \in 1..Len(q)}

\* What holds of persons and roleIds in both readings of C4.
C4_PersonsAndRoles(c) ==
    /\ (c.op = "updateCase" /\ Succeeded(c)) =>
          db.casePersons[c.id] = IF Has(c.data, "persons") THEN SuppliedPersonRows(c.data.persons)
                                 ELSE c.pre.casePersons[c.id]
    /\ (c.op = "updateOfficer" /\ Succeeded(c)) =>
          db.officerRoles[c.id] = IF Has(c.data, "roleIds") THEN SeqRange(c.data.roleIds)
                                  ELSE c.pre.officerRoles[c.id]

\* C4 as stated: after a successful updateCase or updateOfficer a child
\* collection whose key the payload omits is as before, and one whose key the
\* payload holds consists of the rows of the supplied list and nothing else.
C4_ReplacedBySuppliedOnly ==
    \A p \in Procs :
        LET c == proc[p]
        IN  /\ C4_PersonsAndRoles(c)
            /\ (c.op = "updateCase" /\ Succeeded(c)) =>
                  db.caseOfficers[c.id] =
                      IF Has(c.data, "officers") THEN SuppliedOfficerRows(c.data.officers)
                      ELSE c.pre.caseOfficers[c.id]

\* C4 amended: as stated for persons and roleIds and for an omitted officers
\* key; a supplied officers list is stored followed by a row for the merged
\* record's main officer, role 主办, when the list does not name that officer.
C4_ReplacedBySuppliedPlusOwner ==
    \A p \in Procs :
        LET c == proc[p]
            main == JudgedRecord(c).mainOfficerId
        IN  /\ C4_PersonsAndRoles(c)
            /\ (c.op = "updateCase" /\ Succeeded(c)) =>
                  db.caseOfficers[c.id] =
                      IF ~Has(c.data, "officers") THEN c.pre.caseOfficers[c.id]
                      ELSE IF NamesOfficer(c.data.officers, main)
                      THEN SuppliedOfficerRows(c.data.officers)
                      ELSE SuppliedOfficerRows(c.data.officers)
                           \o <<[officerId |-> main, role |-> ZHUBAN]>>

\* An updateCase given an officers list that does not name the main officer
\* succeeded on a case that had officers, and the stored list has one row more
\* than the supplied one.
C4_Witness ==
    \E p \in Procs :
        /\ proc[p].op = "updateCase"
        /\ Succeeded(proc[p])
        /\ Has(proc[p].data, "officers")
        /\ Len(proc[p].pre.caseOfficers[proc[p].id]) > 0
        /\ Len(db.caseOfficers[proc[p].id]) = Len(proc[p].data.officers) + 1

\* C10: a write whose unique value is held by another row, and which no
\* earlier check or storage error stopped, fails with CONFLICT, 409; an update
\* that re-submits the row's own value is not a conflict.  (The household
\* calls judged are those made on the service itself, c.req = NoReq.)
C10_CollisionIsConflict ==
    \A p \in Procs :
        LET c == proc[p]
            d == c.pre
            IsConflict == c.res.kind = "CONFLICT" /\ c.res.status = 409
            early == c.res.raised \in {"STORAGE", "NOT_FOUND", "FORBIDDEN", "VALIDATION_ERROR"}
            hh == Spread(d.households[c.id], c.data)
        IN  (Finished(c) /\ ~early) =>
              /\ (c.op = "createCase" /\ CaseNoTaken(d, c.data.caseNo, 0)) => IsConflict
              /\ (c.op = "updateCase" /\ Has(c.data, "caseNo")) =>
                    /\ CaseNoTaken(d, c.data.caseNo, c.id) => IsConflict
                    /\ c.data.caseNo = d.caseRecords[c.id].caseNo => c.res.raised # "CONFLICT"
              /\ (c.op = "createOfficer" /\ ~Missing(c.data, "badgeNo")
                  /\ BadgeNoTaken(d, c.data.badgeNo, 0)) => IsConflict
              /\ (c.op = "updateOfficer" /\ ~Missing(c.data, "badgeNo")) =>
                    /\ BadgeNoTaken(d, c.data.badgeNo, c.id) => IsConflict
                    /\ ~BadgeNoTaken(d, c.data.badgeNo, c.id) => c.res.raised # "CONFLICT"
              /\ (c.op = "createHousehold" /\ c.req = NoReq
                  /\ (\A k \in {"communityId", "buildingNo", "unitNo", "roomNo"} : ~Missing(c.data, k))
                  /\ HouseTaken(d, c.data.communityId, c.data.buildingNo, c.data.unitNo,
                                c.data.roomNo, 0)) => IsConflict
              /\ (c.op = "updateHousehold" /\ c.req = NoReq
                  /\ (\A k \in {"communityId", "buildingNo", "unitNo", "roomNo"} : ~Missing(hh, k))) =>
                    /\ HouseTaken(d, hh.communityId, hh.buildingNo, hh.unitNo, hh.roomNo, c.id)
                          => IsConflict
                    /\ ~HouseTaken(d, hh.communityId, hh.buildingNo, hh.unitNo, hh.roomNo, c.id)
                          => c.res.raised # "CONFLICT"

\* The request's Authorization header carries no bearer token, or one that is
\* no JWT, that was signed with another key, or whose exp has been reached.
BadBearer(req) ==
    \/ Len(req.header) # 2
    \/ /\ Len(req.header) = 2
       /\ \/ ~IsBearer(req.header[1])
          \/ req.header[2] = Empty
          \/ ~Jwt(req.header[2]).parses
          \/ Jwt(req.header[2]).key # JWT_SECRET
          \/ req.now >= Jwt(req.header[2]).iat + JWT_EXPIRES_IN

\* C1: a request that reaches the permission gate of a route with a non-empty
\* required list ends in exactly one of three ways, decided by req.user:
\* absent, UNAUTHORIZED 401; present without any of the required codes,
\* FORBIDDEN 403; otherwise it goes on to the handler.  The handler runs in
\* the third case only.
C1_GateOutcomes ==
    \A p \in Procs :
        LET c == proc[p]
            required == SeqRange(c.req.route.required)
            held == IF Has(c.user, "permissions") THEN c.user.permissions ELSE {}
            stopped(kind, status) ==
                /\ Finished(c) /\ c.res.kind = kind /\ c.res.status = status
                /\ "handler" \notin c.ran
        IN  (c.req # NoReq /\ "permission" \in c.ran /\ required # {}) =>
                IF c.user = NoUser THEN stopped("UNAUTHORIZED", 401)
                ELSE IF held \cap required = {} THEN stopped("FORBIDDEN", 403)
                ELSE c.pc = "handler" \/ "handler" \in c.ran

\* The gate of a route that accepts either of two codes stopped a request
\* whose claims hold another code.
C1_Witness ==
    \E p \in Procs :
        /\ proc[p].req # NoReq
        /\ "permission" \in proc[p].ran
        /\ Len(proc[p].req.route.required) = 2
        /\ proc[p].user = UManager
        /\ proc[p].res.kind = "FORBIDDEN"

\* C2: a request to a route behind the required auth whose bearer token is
\* missing, malformed, wrongly signed or expired ends with UNAUTHORIZED, 401,
\* which differs in kind and status from FORBIDDEN, 403; only auth ran for it,
\* and the store is as the request found it.
C2_BadTokenUnauthorized ==
    /\ unauthorized.errorCode # forbidden.errorCode
    /\ unauthorized.status # forbidden.status
    /\ \A p \in Procs :
        LET c == proc[p]
        IN  (c.req # NoReq /\ c.req.route.auth = "required" /\ BadBearer(c.req)) =>
                /\ Finished(c)
                /\ c.res.kind = "UNAUTHORIZED"
                /\ c.res.status = 401
                /\ c.ran = {"auth"}
                /\ db = c.pre

\* A request with an expired token of a user who holds the route's permission
\* was answered, after an earlier request had stored a household.
C2_Witness ==
    \E p \in Procs :
        /\ proc[p].req # NoReq
        /\ proc[p].req.header = <<"Bearer", "jwt.manager.d0">>
        /\ proc[p].req.now = 7
        /\ proc[p].req.route.auth = "required"
        /\ Finished(proc[p])
        /\ db.households[1] # NoRow


-----------------------------------------------------------------------------
(* Two creations in flight at once *)
\* Both calls are over, are the same creation with the same unique value, and
\* each ran its pre-flight check on a store that did not hold the value.
RacedCases(c1, c2) ==
    /\ Finished(c1) /\ Finished(c2)
    /\ c1.op = "createCase" /\ c2.op = "createCase"
    /\ c1.data.caseNo = c2.data.caseNo
    /\ ~CaseNoTaken(c1.pre, c1.data.caseNo, 0) /\ ~CaseNoTaken(c2.pre, c2.data.caseNo, 0)
RacedOfficers(c1, c2) ==
    /\ Finished(c1) /\ Finished(c2)
    /\ c1.op = "createOfficer" /\ c2.op = "createOfficer"
    /\ ~Falsy(Get(c1.data, "badgeNo"))
    /\ Get(c1.data, "badgeNo") = Get(c2.data, "badgeNo")
    /\ ~BadgeNoTaken(c1.pre, c1.data.badgeNo, 0) /\ ~BadgeNoTaken(c2.pre, c2.data.badgeNo, 0)
IsConflict(c) == Failed(c) /\ c.res.kind = "CONFLICT" /\ c.res.status = 409
OneWins(c1, c2) ==
    \/ Succeeded(c1) /\ IsConflict(c2)
    \/ Succeeded(c2) /\ IsConflict(c1)
Winner(c1, c2) == IF Succeeded(c1) THEN c1 ELSE c2
CaseIdsWithNo(d, caseNo) ==
    {i \in CaseIds : d.caseRecords[i] # NoRow /\ d.caseRecords[i].caseNo = caseNo}
OfficerIdsWithBadge(d, badgeNo) ==
    {i \in OfficerIds : d.policeOfficers[i] # NoRow /\ d.policeOfficers[i].badgeNo = badgeNo}

\* C11: when two createCase calls with one caseNo, or two createOfficer calls
\* with one badgeNo, both get past the pre-flight check, one of them commits
\* and the other one fails with Conflict (409); afterwards the store holds one
\* parent row with the value, whose children are the winner's, and no child
\* row under any other id.
C11_OneWinnerOneConflict ==
    /\ RacedCases(proc[1], proc[2]) =>
          /\ OneWins(proc[1], proc[2])
          /\ LET w == Winner(proc[1], proc[2])
                 ids == CaseIdsWithNo(db, w.data.caseNo)
             IN  /\ Cardinality(ids) = 1
                 /\ \A i \in ids :
                       /\ db.caseRecords[i] = CaseRowOf(w.data)
                       /\ Len(db.caseOfficers[i]) = Len(OfficerInserts(w.data.officers, w.data.mainOfficerId))
                       /\ db.casePersons[i] = SuppliedPersonRows(w.data.persons)
                 /\ \A i \in CaseIds : db.caseRecords[i] = NoRow =>
                       (db.caseOfficers[i] = <<>> /\ db.casePersons[i] = <<>>)
    /\ RacedOfficers(proc[1], proc[2]) =>
          /\ OneWins(proc[1], proc[2])
          /\ LET w == Winner(proc[1], proc[2])
                 ids == OfficerIdsWithBadge(db, w.data.badgeNo)
             IN  /\ Cardinality(ids) = 1
                 /\ \A i \in ids :
                       /\ db.policeOfficers[i] = NewOfficerRow(w.data)
                       /\ db.officerRoles[i] = SeqRange(w.data.roleIds)
                 /\ \A i \in OfficerIds : db.policeOfficers[i] = NoRow => db.officerRoles[i] = {}

\* Two createOfficer calls raced on one badgeNo and the loser, whose INSERT
\* waited for the winner's commit, has been answered.
C11_Witness ==
    /\ RacedOfficers(proc[1], proc[2])
    /\ Succeeded(proc[1]) /\ IsConflict(proc[2])
    /\ proc[1].data # proc[2].data

RacedRegisters(c1, c2) ==
    /\ Finished(c1) /\ Finished(c2)
    /\ c1.op = "register" /\ c2.op = "register"
    /\ c1.data.badgeNo = c2.data.badgeNo
    /\ ~Falsy(c1.data.password) /\ ~Falsy(c2.data.password)
    /\ ~BadgeNoTaken(c1.pre, c1.data.badgeNo, 0) /\ ~BadgeNoTaken(c2.pre, c2.data.badgeNo, 0)

\* C12: when two register calls with one badgeNo both get past the existence
\* check, one of them succeeds and the other one fails with Conflict (409),
\* and one officer row holds the badgeNo.
C12_RegisterLoserIsConflict ==
    RacedRegisters(proc[1], proc[2]) =>
        /\ OneWins(proc[1], proc[2])
        /\ Cardinality(OfficerIdsWithBadge(db, proc[1].data.badgeNo)) = 1

-----------------------------------------------------------------------------
(* Tokens issued by login and register *)
\* The request of slot c carried a token that login or register had issued.
CarriesIssued(c) ==
    /\ c.req # NoReq
    /\ Len(c.req.header) = 2
    /\ c.req.header[2] \in IssuedNames
    /\ IssuedIndex(c.req.header[2]) <= Len(issued)
TokenOf(c) == issued[IssuedIndex(c.req.header[2])]
Admitted(c) == c.pc = "handler" \/ "handler" \in c.ran
StoppedWith(c, kind, status) ==
    /\ Finished(c) /\ c.res.kind = kind /\ c.res.status = status
    /\ "handler" \notin c.ran

\* C13: a request carrying a token issued by login or register is decided by
\* the token alone: once the lifetime is over it is UNAUTHORIZED; within the
\* lifetime it is admitted exactly when the route requires nothing or the
\* permissions embedded at issue hold one of the required codes, and FORBIDDEN
\* otherwise -- whatever roles and status the store holds for the officer by
\* the time of the request.
C13_TokenDecidesGate ==
    \A p \in Procs :
        LET c == proc[p]
            tok == TokenOf(c)
            required == SeqRange(c.req.route.required)
        IN  CarriesIssued(c) =>
                IF c.req.now >= tok.iat + JWT_EXPIRES_IN
                THEN StoppedWith(c, "UNAUTHORIZED", 401)
                ELSE IF required # {} /\ tok.payload.permissions \cap required = {}
                THEN StoppedWith(c, "FORBIDDEN", 403)
                ELSE Admitted(c)

\* A request was admitted to a route requiring user:manage on a token whose
\* officer has since lost the role that grants it, or has since been locked.
C13_Witness ==
    \E p \in Procs :
        LET c == proc[p]
            tok == TokenOf(c)
        IN  /\ CarriesIssued(c)
            /\ c.pc = "handler"
            /\ c.req.route.required = <<"user:manage">>
            /\ \/ "user:manage" \notin loadRolesAndPermissions(db, tok.payload.id).permissions
               \/ db.policeOfficers[tok.payload.id].status = "LOCKED"

\* The permission codes and role codes the store assigns to an officer.
AssignedPermissions(d, officerId) ==
    {code \in UNION {d.rolePermissions[r] : r \in RoleIds} :
        \E r \in d.officerRoles[officerId] : code \in d.rolePermissions[r]}
AssignedRoleCodes(d, officerId) == {d.roles[r].code : r \in d.officerRoles[officerId]}

\* C14: the token a successful login returns embeds the union of the
\* permissions of the officer's assigned roles (nothing when no role is
\* assigned) and the codes of those roles; the user getCurrentUser returns
\* holds the same union and codes.
C14_PermissionsAreUnionOfRoles ==
    \A p \in Procs :
        LET c == proc[p]
        IN  /\ (c.op = "login" /\ Succeeded(c)) =>
                  /\ issued # <<>>
                  /\ issued[Len(issued)].payload.id = c.id
                  /\ issued[Len(issued)].payload.permissions = AssignedPermissions(db, c.id)
                  /\ issued[Len(issued)].payload.roles = AssignedRoleCodes(db, c.id)
            /\ (c.op = "getCurrentUser" /\ Succeeded(c)) =>
                  /\ c.data.permissions = AssignedPermissions(db, c.id)
                  /\ c.data.roles = AssignedRoleCodes(db, c.id)

\* A login of an officer with two roles that share a permission succeeded.
C14_Witness ==
    \E p \in Procs :
        /\ proc[p].op = "login" /\ Succeeded(proc[p])
        /\ db.officerRoles[proc[p].id] = {1, 2}
        /\ Cardinality(issued[Len(issued)].payload.permissions) = 5

-----------------------------------------------------------------------------
(* Errors of the officer write path *)
\* C15: when createOfficer or updateOfficer reports an error, the officer
\* rows and the role assignments are those the call found: no error is
\* reported for a call whose transaction committed.
C15_ErrorMeansRolledBack ==
    \A p \in SeqProcs :
        LET c == proc[p]
        IN  (c.op \in {"createOfficer", "updateOfficer"} /\ Failed(c)) =>
                StoredOfficers(db) = StoredOfficers(c.pre)

-----------------------------------------------------------------------------
C17_StorageFailuresAreTyped ==
    \A p \in Procs :
        LET c == proc[p]
        IN  (/\ Failed(c)
             /\ c.op \in {"createCase", "updateCase", "deleteCase",
                          "createOfficer", "updateOfficer", "deleteOfficer"}
             /\ c.res.raised = "STORAGE") =>
                c.res.kind \in {"CONFLICT", "VALIDATION_ERROR", "DB_ERROR"}

-----------------------------------------------------------------------------
(* Validation, merging and reading back *)
\* The field keys of every business rule that record r violates.
AllViolatedFields(r) ==
    (IF DeadlineBeforeReceived(r) THEN {"deadlineDate"} ELSE {}) \cup MissingGated(r)

\* C18: the ValidationError the business rules raise for a case record names
\* the fields of every rule the record violates, not only those of the first
\* rule checked.
C18_AllViolationsCollected ==
    \A p \in SeqProcs :
        LET c == proc[p]
        IN  (/\ Finished(c)
             /\ c.op \in {"createCase", "updateCase"}
             /\ c.res.raised = "VALIDATION_ERROR"
             /\ c.res.raisedFields \cap (GatedFields \cup {"deadlineDate"}) # {}) =>
                AllViolatedFields(JudgedRecord(c)) \subseteq c.res.raisedFields

\* C19: a partial update keeps the stored value of every field absent from
\* the patch and stores the value of every field present in it, an explicit
\* null included (here for updatePlace).
C19_PresentFieldsReplace ==
    \A p \in SeqProcs :
        LET c == proc[p]
        IN  (c.op = "updatePlace" /\ Succeeded(c)) =>
                \A k \in DOMAIN db.places[c.id] :
                    db.places[c.id][k] = IF Has(c.data, k) THEN c.data[k]
                                         ELSE c.pre.places[c.id][k]

\* The second slot read the case the first slot created: the creation is
\* over, the read found the row, and nothing was created after it.
ReadBack(c, r) ==
    /\ c.op = "createCase" /\ Succeeded(c)
    /\ r.op = "getCaseDetail" /\ Succeeded(r)
    /\ r.id = CaseIdOf(c)
OptionalCaseFields ==
    {"deadlineDate", "closedDate", "resultItemId", "transferTarget", "transferDate",
     "archiveLocation", "archiveDate"}
DefaultOf(k) == IF k = "status" THEN ZAIBAN ELSE Null
\* The parent the payload describes, a default standing for every key omitted.
ParentAsSupplied(data) ==
    [k \in {"caseNo", "mainOfficerId", "receivedDate", "status"} \cup OptionalCaseFields |->
        IF Has(data, k) THEN data[k] ELSE DefaultOf(k)]
\* The same, a default standing also for a null and for an empty string.
ParentNormalised(data) ==
    [k \in {"caseNo", "mainOfficerId", "receivedDate", "status"} \cup OptionalCaseFields |->
        IF k \in {"caseNo", "mainOfficerId", "receivedDate"} THEN data[k]
        ELSE IF Missing(data, k) THEN DefaultOf(k)
        ELSE data[k]]
OfficersAsSupplied(list) ==
    [i \in 1..Len(list) |->
        [officerId |-> list[i].officerId,
         role |-> IF Has(list[i], "role") THEN list[i].role ELSE Null]]
OwnerRow(data) ==
    IF NamesOfficer(data.officers, data.mainOfficerId) THEN <<>>
    ELSE <<[officerId |-> data.mainOfficerId, role |-> ZHUBAN]>>

-----------------------------------------------------------------------------
(* The main officer among the officers of a case *)
\* The payload's officers list gives officer o a role of its own.
GivesRole(list, o) ==
    \E i \in 1..Len(list) : list[i].officerId = o /\ ~Missing(list[i], "role")

\* C21: after createCase the stored officers hold a row for the main officer,
\* and whenever the payload gave that officer no role of its own, every row
\* of the main officer carries the role 主办 (ZHUBAN): a payload naming only
\* the main officer, without a role, yields exactly one row, with that role.
C21_MainOfficerRowIsZhuban ==
    \A p \in SeqProcs :
        LET c == proc[p]
            rows == db.caseOfficers[CaseIdOf(c)]
            mine == {i \in 1..Len(rows) : rows[i].officerId = c.data.mainOfficerId}
        IN  (c.op = "createCase" /\ Succeeded(c)) =>
                /\ mine # {}
                /\ ~GivesRole(c.data.officers, c.data.mainOfficerId) =>
                       (\A i \in mine : rows[i].role = ZHUBAN)

-----------------------------------------------------------------------------
(* Officers are locked, never removed *)
\* What a successful deleteOfficer leaves of the store it found.
LockedIn(d, id) ==
    [d EXCEPT !.policeOfficers[id].status = "LOCKED", !.policeOfficers[id].isActive = 0]
OfficerDeleted(c) == c.op = "deleteOfficer" /\ Succeeded(c)

\* C22: a successful deleteOfficer leaves the store as it found it except
\* that the officer's status is LOCKED and its active flag is off (name,
\* badgeNo, password hash, roles and every other table are untouched); and no
\* step of any operation removes an officer row that is stored.
C22_OfficersAreNeverRemoved ==
    /\ [](\A p \in Procs : OfficerDeleted(proc[p]) => db = LockedIn(proc[p].pre, proc[p].id))
    /\ [][\A i \in OfficerIds : db.policeOfficers[i] # NoRow => db'.policeOfficers[i] # NoRow]_vars

\* An officer holding roles was deleted and is stored, locked, with its roles.
C22_Witness ==
    \E p \in Procs :
        /\ OfficerDeleted(proc[p])
        /\ db.officerRoles[proc[p].id] # {}
        /\ db.policeOfficers[proc[p].id].status = "LOCKED"
        /\ proc[p].pre.policeOfficers[proc[p].id].status = "ACTIVE"

-----------------------------------------------------------------------------
(* The two forms of a permission requirement *)
\* C23: at the permission gate, claims pass an "any of" requirement when they
\* hold at least one listed code, and pass an "all of" requirement only when
\* they hold every listed code; otherwise the request ends FORBIDDEN, 403.
C23_AnyOfAndAllOf ==
    \A p \in Procs :
        LET c == proc[p]
            required == SeqRange(c.req.route.required)
            held == userPermissions(c.user)
            passes == IF c.req.route.mode = "all" THEN required \subseteq held
                      ELSE held \cap required # {}
        IN  (c.req # NoReq /\ "permission" \in c.ran /\ c.user # NoUser /\ required # {}) =>
                IF passes THEN Admitted(c) ELSE StoppedWith(c, "FORBIDDEN", 403)

(* Scoping of the case list *)
ListedTo(c) == c.op = "listCases" /\ Succeeded(c)
Strangers(c) == {id \in c.data.items : ~Participates(c.pre, id, c.user)}

\* C24: the gate admits to GET /cases a caller holding case:view_my or
\* case:view_all; a caller without case:view_all is listed only cases where
\* they are main officer or a listed officer, whatever scope and mainOfficerId
\* the query carries; cases the caller takes no part in are listed only to a
\* caller with case:view_all who asked for scope=all.
C24_ListIsScoped ==
    \A p \in Procs :
        LET c == proc[p]
        IN  /\ (c.req # NoReq /\ "permission" \in c.ran /\ c.req.route.op = "listCases"
                  /\ userPermissions(c.user) \cap {"case:view_my", "case:view_all"} # {}) =>
                     Admitted(c)
            /\ ListedTo(c) =>
                 /\ c.data.items \subseteq {id \in CaseIds : c.pre.caseRecords[id] # NoRow}
                 /\ ~hasPermission(c.user, "case:view_all") => Strangers(c) = {}
                 /\ Strangers(c) # {} =>
                        hasPermission(c.user, "case:view_all") /\ Get(c.data.query, "scope") = "all"

C24_Witness ==
    \E p \in Procs :
        /\ ListedTo(proc[p]) /\ ~hasPermission(proc[p].user, "case:view_all")
        /\ Get(proc[p].data.query, "scope") = "all" /\ Has(proc[p].data.query, "mainOfficerId")
        /\ proc[p].data.items # {}
        /\ \E id \in CaseIds : proc[p].pre.caseRecords[id] # NoRow /\ id \notin proc[p].data.items

(* Two writers of one case *)
Updated(c) == c.op = "updateCase" /\ Succeeded(c)
\* What an updateCase call writes: the parent row and the officers rows.
WrittenRow(c) == CaseRowOf(MergedCase(c.pre.caseRecords[c.id], c.data))
WrittenOfficers(c) ==
    LET stmts == OfficerInserts(c.data.officers, WrittenRow(c).mainOfficerId)
    IN  [i \in 1..Len(stmts) |-> stmts[i].kid]
BothUpdated == Updated(proc[1]) /\ Updated(proc[2]) /\ proc[1].id = proc[2].id
\* The two calls ran at once: each read the case before the other wrote it.
Overlapped == BothUpdated /\ proc[1].pre = proc[2].pre

PreflightFinds(d, c) ==
    CASE c.op = "createCase" -> CaseNoTaken(d, c.data.caseNo, 0)
      [] c.op = "updateCase" ->
            /\ d.caseRecords[c.id] # NoRow
            /\ Has(c.data, "caseNo") /\ ~Falsy(c.data.caseNo)
            /\ c.data.caseNo # d.caseRecords[c.id].caseNo
            /\ CaseNoTaken(d, c.data.caseNo, c.id)
      [] c.op = "createOfficer" ->
            ~Falsy(Get(c.data, "badgeNo")) /\ BadgeNoTaken(d, c.data.badgeNo, 0)
      [] c.op = "updateOfficer" ->
            /\ d.policeOfficers[c.id] # NoRow
            /\ Has(c.data, "badgeNo") /\ ~Falsy(c.data.badgeNo)
            /\ BadgeNoTaken(d, c.data.badgeNo, c.id)
      [] OTHER -> FALSE

\* C26: in createCase, updateCase, createOfficer and updateOfficer, a call
\* whose pre-flight query finds a conflicting row fails before a transaction
\* is begun: no connection is taken, no statement of the write path runs and
\* the store is unchanged.
C26_PreflightPrecedesTransaction ==
    [][\A p \in Procs :
          (proc[p].pc \in {"idle", "done"} /\ proc'[p] # proc[p] /\ PreflightFinds(db, proc'[p])) =>
              /\ Failed(proc'[p])
              /\ proc'[p].nStmts = 0
              /\ poolOut' = poolOut
              /\ db' = db]_vars

C26_Witness ==
    \E p \in Procs :
        /\ proc[p].op = "updateCase" /\ Failed(proc[p])
        /\ PreflightFinds(proc[p].pre, proc[p])
        /\ proc[p].res.raised = "CONFLICT"
        /\ proc[p].nStmts = 0 /\ poolOut = 0 /\ db = proc[p].pre

(* The guards of deleteCase *)
Removable(d, id, user) ==
    /\ d.caseRecords[id] # NoRow
    /\ d.caseRecords[id].status = ZAIBAN
    /\ d.caseRecords[id].mainOfficerId = user.id \/ hasPermission(user, "case:view_all")
CaseDeleted(c) == c.op = "deleteCase" /\ Succeeded(c)

RulesHold(row) == MissingGated(row) = {} /\ ~DeadlineBeforeReceived(row)

\* C28: whatever createCase and updateCase calls have run, failed ones and
\* overlapping ones included, every stored case row satisfies the business
\* rules: a deadline is not before the received date, and a status of 已结,
\* 移交 or 存档 has the fields it requires.
C28_StoredCasesSatisfyRules ==
    \A id \in CaseIds : db.caseRecords[id] # NoRow => RulesHold(db.caseRecords[id])

\* Two overlapping updates committed; the one moving the case to 移交 wrote
\* last, over the other's row.
C28_Witness ==
    /\ BothUpdated /\ proc[1].pre = proc[2].pre
    /\ db.caseRecords[1].status = YIJIAO
    /\ proc[1].pre.caseRecords[1].status = ZAIBAN
    /\ \E p \in Procs : WrittenRow(proc[p]) # db.caseRecords[1]

(* Login of a locked account *)
\* The login that has just run in slot p; the officer its badge number finds.
LoginRan(p) == proc[p].pc \in {"idle", "done"} /\ proc'[p] # proc[p] /\ proc'[p].op = "login"
LoginOf(c) == findOfficerByBadgeNo(c.pre, c.data.badgeNo)
LockedAt(d, id) ==
    id # 0 /\ d.policeOfficers[id] # NoRow /\ d.policeOfficers[id].status = "LOCKED"

\* C29: a successful deleteOfficer leaves the account LOCKED, and it stays
\* LOCKED until an updateOfficer with a status key succeeds; while it is
\* LOCKED every login for it ends UNAUTHORIZED, 401, with no token issued,
\* whatever the password; and a failed login leaves the store as it was.
C29_LockedAccountCannotLogin ==
    /\ [](\A p \in Procs :
             OfficerDeleted(proc[p]) => LockedAt(db, proc[p].id))
    /\ [][\A i \in OfficerIds :
             (LockedAt(db, i) /\ ~LockedAt(db', i)) =>
                 \E p \in Procs :
                     /\ proc[p].op = "updateOfficer" /\ proc[p].id = i
                     /\ Succeeded(proc'[p])
                     /\ Has(proc[p].data, "status") /\ proc[p].data.status # "LOCKED"]_vars
    /\ [][\A p \in Procs :
             LoginRan(p) =>
                 /\ LockedAt(db, LoginOf(proc'[p])) =>
                        /\ proc'[p].res.kind = "UNAUTHORIZED" /\ proc'[p].res.status = 401
                        /\ issued' = issued
                 /\ Failed(proc'[p]) => db' = db /\ issued' = issued]_vars

\* The right password, turned down: the account was locked by deleteOfficer
\* (is_active 0 is written there alone in these behaviours).
C29_Witness ==
    \E p \in Procs :
        LET c == proc[p]
        IN  /\ c.op = "login" /\ Failed(c)
            /\ LockedAt(c.pre, LoginOf(c))
            /\ c.pre.policeOfficers[LoginOf(c)].isActive = 0
            /\ bcryptCompare(c.data.password, c.pre.passwordHash[LoginOf(c)])
            /\ issued # <<>>

(* Transactions end and give their connection back *)
InTxn == {p \in Procs : proc[p].pc = "txn"}
CommittedImage(c) ==
    IF c.op \in {"createOfficer", "updateOfficer"} THEN CommitOfficer(db, c.tx)
    ELSE CommitCase(db, c.tx)

\* C30: a write operation that has begun a transaction ends it committed (the
\* store takes the connection's image) or rolled back (the store stays as it
\* is), a call that returns normally having committed; the step that ends it,
\* a failing statement, commit or rollback included, gives back the one
\* connection it took, so the connections checked out are those of the
\* transactions still running and none once every call has ended.
C30_TransactionsEndAndRelease ==
    /\ [](poolOut = Cardinality(InTxn))
    /\ [][\A p \in Procs :
             /\ (proc[p].pc = "txn" /\ proc'[p].pc = "done") =>
                  /\ poolOut' = poolOut - 1
                  /\ \/ (StoredCases(db') = StoredCases(db)
                         /\ StoredOfficers(db') = StoredOfficers(db))
                     \/ db' = CommittedImage(proc[p])
                  /\ Succeeded(proc'[p]) => db' = CommittedImage(proc[p])
             /\ (proc[p].pc # "txn" /\ proc'[p].pc = "txn") => poolOut' = poolOut + 1
             /\ (proc[p].pc = "txn" /\ proc'[p].pc = "txn" /\ proc'[p] # proc[p]) =>
                    poolOut' = poolOut]_vars

\* A statement failed after another had run, and the rollback failed too.
C30_Witness ==
    \E p \in Procs :
        /\ proc[p].op \in {"createOfficer", "updateOfficer"}
        /\ Failed(proc[p]) /\ proc[p].res.kind = "RAW"
        /\ proc[p].nStmts > 0
        /\ poolOut = 0
        /\ StoredOfficers(db) = StoredOfficers(proc[p].pre)

=============================================================================
